---------------------------- MODULE Spec2Model ----------------------------
(***************************************************************************)
(* Savegame conversion of OpenTTD: AfterLoadGame and its helpers           *)
(* (src/saveload/afterload.cpp), modelled as a state machine.              *)
(*                                                                         *)
(* AfterLoadGame is a straight-line sequence of steps, most of them        *)
(* guarded by IsSavegameVersionBefore(stv, major, minor).  The model walks *)
(* through these steps in source order with a program counter; the store   *)
(* (settings, map array, pools) is decoded before AfterLoadGame starts and *)
(* is therefore chosen by Init.                                            *)
(***************************************************************************)
EXTENDS Integers, Sequences, FiniteSets, TLC

VARIABLES
    stv,                \* SavegameTypeVersion of the snapshot: <<major, minor>>
    pc,                 \* index into Program of the next step of AfterLoadGame
    status,             \* "running", "done", "SlCorrupt" or "SlException"
    ran,                \* source lines of the gated steps whose body was executed
    executed,           \* source lines of the steps reached so far, in order
    _pause_mode,
    _networking,
    _network_server,
    _network_dedicated,
    _date_fract,
    _settings_game,
    trains,             \* gcache.cached_total_length of every valid train
    map_size_x,         \* MapSizeX() (the model's maps are square)
    _m,                 \* the map array: tile index -> tile
    objects,            \* the Object pool: sequence of created objects
    num_towns,          \* Town::GetNumItems()
    stations,           \* the Station pool: station id -> record
    vehicles,           \* the Vehicle pool: sequence of vehicle records
    calls,              \* the cache rebuilds and collaborators called so far
    gcf_res,            \* the answer of IsGoodGRFConfigList(_grfconfig)
    _game_mode,
    companies,          \* the Company pool: sequence of company records
    subsidies,          \* the Subsidy pool: sequence of subsidy records
    entry,              \* the store as it was when AfterLoadGame was entered
    gwc,                \* arguments and outcome of a direct GuessWaterClass call
    query,              \* a query put to the version oracle, with its answer
    _animated_tile_list,      \* the entries of the list below the count
    _animated_tile_count,
    _animated_tile_allocated,
    reader,             \* the ANIT chunk: its bytes and the read position
    anit,               \* where the animated tile procedures stand
    handlers,           \* the disposition of every signal
    crash               \* where the process stands with respect to a fault

vars == <<stv, pc, status, ran, executed, _pause_mode, _networking,
          _network_server, _network_dedicated, _date_fract, _settings_game,
          trains, map_size_x, _m, objects, num_towns, stations, vehicles,
          calls,
          gcf_res, _game_mode, companies, subsidies, entry, gwc, query,
          _animated_tile_list, _animated_tile_count, _animated_tile_allocated,
          reader, anit, handlers, crash>>

---------------------------------------------------------------------------
(* Bounds of the model. *)

\* Largest minor version of a snapshot or of a query to the oracle.
MaxMinor == 3

\* Largest major version put to the oracle in the oracle specification.
MaxQueryMajor == 5

\* Largest side of a (square) map.
MaxMapSide == 4

\* Longest train of the decoded store, in tiles above the legacy maximum.
MaxExtraTrainTiles == 2

\* Most legacy objects placed on a map in the object specification.
MaxObjects == 3

---------------------------------------------------------------------------
(* Program constants. *)

\* line 460: _date_fract /= 885
DateFractDivisor == 885

\* date_type.h: DAY_TICKS
DAY_TICKS == 74

\* tile_type.h: TILE_SIZE, TILE_HEIGHT; genworld.h: MIN_SNOWLINE_HEIGHT
TILE_SIZE == 16
TILE_HEIGHT == 8
MIN_SNOWLINE_HEIGHT == 2

\* openttd.h: PauseMode
PM_UNPAUSED == 0
PM_PAUSED_NORMAL == 1
PM_PAUSED_SAVELOAD == 2
PM_PAUSED_JOIN == 4
PM_PAUSED_ERROR == 8
PM_PAUSED_ACTIVE_CLIENTS == 16
PMB_PAUSED_NETWORK == PM_PAUSED_ACTIVE_CLIENTS + PM_PAUSED_JOIN

\* line 494: the legacy maximum train length, in tiles
LegacyMaxTrainLength == 50

---------------------------------------------------------------------------
(* Integer helpers (core/bitmath_func.hpp, core/math_func.hpp). *)

Pow2(n) == 2 ^ n

\* GB(x, s, n): n bits of x starting at bit s
GB(x, s, n) == (x \div Pow2(s)) % Pow2(n)

HasBit(x, n) == GB(x, n, 1) = 1

\* SB(x, s, n, d): x with the n bits starting at bit s set to d
SB(x, s, n, d) == x - GB(x, s, n) * Pow2(s) + (d % Pow2(n)) * Pow2(s)

\* The bits set in a value of at most 16 bits, and the value of a set of bits.
Bits(x) == {b \in 0..15 : HasBit(x, b)}

RECURSIVE SumBits(_)
SumBits(S) ==
    IF S = {} THEN 0
    ELSE LET b == CHOOSE e \in S : TRUE IN Pow2(b) + SumBits(S \ {b})

\* x & y and x & ~y
BitAnd(x, y) == SumBits(Bits(x) \cap Bits(y))
BitAndNot(x, y) == SumBits(Bits(x) \ Bits(y))

CeilDiv(a, b) == (a + b - 1) \div b

Max(a, b) == IF a >= b THEN a ELSE b

\* a value stored into a uint8
ToUint8(x) == x % 256

---------------------------------------------------------------------------
(* The version oracle.                                                     *)

\* Variant, for comparison: the oracle comparing the major version only.
IsSavegameVersionBefore_IgnoreMinor(v, major, minor) ==
    v[1] < major

\* IsSavegameVersionBefore(stv, major, minor): major first, then minor.
IsSavegameVersionBefore(v, major, minor) ==
    IF v[1] # major THEN v[1] < major ELSE v[2] < minor

\* The default argument: IsSavegameVersionBefore(stv, major) is minor = 0.
IsSavegameVersionBeforeMajor(v, major) == IsSavegameVersionBefore(v, major, 0)

---------------------------------------------------------------------------
(* The steps of AfterLoadGame in source order:                             *)
(* <<source line, kind, threshold major, threshold minor>>.                *)
(* Kind "gated" is a step whose guard is a version predicate and whose     *)
(* effect on the modelled store is given by GatedEffect; the other kinds   *)
(* have an action of their own.  Steps without a version predicate have    *)
(* threshold <<0, 0>>; line 823 calls AfterLoadStations unless the         *)
(* snapshot is older than its threshold.  Kind "call" is an unconditional  *)
(* call of a collaborator that holds no modelled state.                    *)

Program == <<
    <<294, "gated", 98, 0>>, <<299, "gated", 98, 0>>, <<301, "pause", 119, 0>>,
    <<331, "gated", 2, 0>>, <<350, "gated", 4, 1>>, <<368, "gated", 4, 2>>,
    <<384, "gated", 4, 3>>, <<392, "gated", 84, 0>>, <<418, "gated", 106, 0>>,
    <<440, "grf", 0, 0>>,
    <<460, "date_fract", 11, 1>>, <<479, "gated", 4, 2>>, <<480, "gated", 6, 1>>,
    <<481, "gated", 21, 0>>, <<482, "gated", 90, 0>>, <<483, "gated", 95, 0>>,
    <<484, "gated", 96, 0>>, <<485, "gated", 133, 0>>, <<489, "gated", 134, 0>>,
    <<490, "gated", 138, 0>>, <<491, "gated", 139, 0>>, <<492, "gated", 143, 0>>,
    <<493, "gated", 159, 0>>, <<498, "gated", 166, 0>>, <<499, "gated", 183, 0>>,
    <<515, "gated", 17, 1>>, <<531, "gated", 139, 0>>, <<541, "call", 0, 0>>,
    <<543, "ai", 0, 0>>, <<552, "towns", 0, 0>>, <<560, "startup", 0, 0>>,
    <<573, "stations", 0, 0>>,
    <<633, "gated", 2, 2>>, <<638, "gated", 6, 1>>, <<657, "gated", 111, 0>>,
    <<663, "gated", 9, 0>>, <<670, "gated", 16, 0>>, <<691, "gated", 114, 0>>,
    <<700, "step42", 42, 0>>, <<736, "gated", 24, 0>>, <<784, "gated", 16, 1>>,
    <<789, "gated", 123, 0>>, <<796, "gated", 25, 0>>, <<803, "gated", 26, 0>>,
    <<810, "call", 0, 0>>, <<812, "gated", 34, 0>>, <<817, "call", 0, 0>>,
    <<823, "AfterLoadStations", 27, 0>>, <<827, "gated", 31, 0>>,
    <<852, "gated", 32, 0>>, <<872, "gated", 36, 0>>, <<887, "gated", 38, 0>>,
    <<893, "call", 0, 0>>,
    <<895, "gated", 43, 0>>, <<922, "gated", 45, 0>>, <<936, "gated", 46, 0>>,
    <<943, "gated", 50, 0>>, <<956, "gated", 49, 0>>, <<958, "gated", 52, 0>>,
    <<969, "gated", 56, 0>>, <<979, "gated", 57, 0>>, <<993, "gated", 59, 0>>,
    <<1007, "gated", 58, 0>>, <<1018, "gated", 69, 0>>, <<1028, "gated", 70, 0>>,
    <<1034, "gated", 74, 0>>, <<1044, "gated", 78, 0>>, <<1058, "gated", 93, 0>>,
    <<1075, "gated", 94, 0>>, <<1094, "gated", 84, 0>>, <<1110, "step86", 86, 0>>,
    <<1122, "step87", 87, 0>>, <<1179, "gated", 88, 0>>, <<1189, "step91", 91, 0>>,
    <<1199, "step62", 62, 0>>, <<1211, "step99", 99, 0>>, <<1233, "gated", 101, 0>>,
    <<1240, "gated", 102, 0>>, <<1247, "gated", 103, 0>>, <<1265, "gated", 104, 0>>,
    <<1292, "objects", 147, 0>>, <<1333, "gated", 113, 0>>, <<1363, "gated", 114, 0>>,
    <<1374, "gated", 117, 0>>, <<1381, "gated", 120, 0>>, <<1389, "step121", 121, 0>>,
    <<1421, "step122", 122, 0>>, <<1445, "gated", 124, 0>>, <<1461, "step125", 125, 0>>,
    <<1521, "gated", 126, 0>>, <<1539, "gated", 127, 0>>, <<1544, "gated", 128, 0>>,
    <<1554, "gated", 131, 0>>, <<1564, "gated", 136, 0>>, <<1577, "gated", 137, 0>>,
    <<1613, "gated", 140, 0>>, <<1623, "gated", 141, 0>>, <<1638, "gated", 142, 0>>,
    <<1648, "gated", 146, 0>>, <<1664, "step147", 147, 0>>, <<1696, "gated", 148, 0>>,
    <<1704, "gated", 149, 0>>, <<1726, "gated", 152, 0>>, <<1795, "wormhole", 0, 0>>,
    <<1823, "gated", 153, 0>>, <<1838, "gated", 156, 0>>, <<1856, "gated", 158, 0>>,
    <<1953, "step159", 159, 0>>, <<1968, "gated", 160, 0>>, <<1976, "gated", 161, 0>>,
    <<2029, "snow", 164, 0>>, <<2033, "gated", 164, 0>>, <<2052, "gated", 164, 0>>,
    <<2054, "gated", 165, 0>>, <<2072, "gated", 165, 0>>, <<2084, "gated", 166, 0>>,
    <<2098, "gated", 172, 0>>, <<2107, "gated", 175, 0>>, <<2113, "gated", 177, 0>>,
    <<2124, "gated", 178, 0>>, <<2130, "gated", 182, 0>>, <<2149, "gated", 184, 0>>,
    <<2160, "finish", 0, 0>>
>>

NumSteps == Len(Program)

LineOf(i) == Program[i][1]
KindOf(i) == Program[i][2]
ThresholdOf(i) == <<Program[i][3], Program[i][4]>>

\* The steps that carry a version predicate.
IsVersionGated(i) ==
    KindOf(i) \notin {"stations", "wormhole", "finish", "AfterLoadStations",
                      "grf", "call", "ai", "towns", "startup"}

\* The index of the step at a source line.
StepAt(line) == CHOOSE i \in 1..NumSteps : LineOf(i) = line


---------------------------------------------------------------------------
(* The map array and its accessors (map_func.h, tile_map.h, water_map.h,   *)
(* rail_map.h).  A tile is a record: its tile type, a subtype that stands  *)
(* for the type-dependent bits the conversions read, whether the tile is   *)
(* flat, its water class, the raw fields m2, m3 and m4, its owner and the  *)
(* sides its rail tracks lead to (the sides dd for which                   *)
(* GetTileTrackStatus(t, TRANSPORT_RAIL, 0, dd) is not 0).                 *)

TREE_GROUND_SHORE == 3

\* company_type.h, as used at lines 1134 and 1149
MAX_COMPANIES == 15
OWNER_NONE == 16
INVALID_COMPANY == 255

Tile(type, sub, flat, wc, m2, m4) ==
    [type |-> type, sub |-> sub, flat |-> flat, wc |-> wc,
     m2 |-> m2, m3 |-> 0, m4 |-> m4, m6 |-> 0, m7 |-> 0, owner |-> OWNER_NONE,
     tracks |-> {}]

MapSizeX == map_size_x
MapSizeY == map_size_x
MapSize == MapSizeX * MapSizeY
MapMaxX == MapSizeX - 1
MapMaxY == MapSizeY - 1

TileX(t) == t % MapSizeX
TileY(t) == t \div MapSizeX
TileXY(x, y) == y * MapSizeX + x

DIAGDIR_NE == 0
DIAGDIR_SE == 1
DIAGDIR_SW == 2
DIAGDIR_NW == 3
DIAGDIR_END == 4

\* TileOffsByDiagDir: NE is x - 1, SE is y + 1, SW is x + 1, NW is y - 1.
TileOffsByDiagDir(dir) ==
    CASE dir = DIAGDIR_NE -> 0 - 1
      [] dir = DIAGDIR_SE -> MapSizeX
      [] dir = DIAGDIR_SW -> 1
      [] dir = DIAGDIR_NW -> 0 - MapSizeX

TileAddByDiagDir(t, dir) == t + TileOffsByDiagDir(dir)

\* TILE_ADDXY(t, x, y)
TileAddXY(t, x, y) == t + TileXY(x, y)

GetTileType(m, t) == m[t].type
IsTileType(m, t, type) == m[t].type = type
IsTileFlat(m, t) == m[t].flat
IsCoast(m, t) == m[t].type = "MP_WATER" /\ m[t].sub = "coast"
IsLock(m, t) == m[t].type = "MP_WATER" /\ m[t].sub = "lock"
IsDock(m, t) == m[t].type = "MP_STATION" /\ m[t].sub = "dock"
IsBuoy(m, t) == m[t].type = "MP_STATION" /\ m[t].sub = "buoy"
IsOilRig(m, t) == m[t].type = "MP_STATION" /\ m[t].sub = "oilrig"
GetWaterClass(m, t) == m[t].wc
SetWaterClass(m, t, wc) == [m EXCEPT ![t].wc = wc]
IsRailGroundWater(m, t) == m[t].sub = "RAIL_GROUND_WATER"
GetTileOwner(m, t) == m[t].owner
SetTileOwner(m, t, o) == [m EXCEPT ![t].owner = o]
IsPlainRailTile(m, t) == IsTileType(m, t, "MP_RAILWAY") /\ m[t].sub # "RAIL_TILE_DEPOT"
IsLevelCrossingTile(m, t) == IsTileType(m, t, "MP_ROAD") /\ m[t].sub = "ROAD_TILE_CROSSING"
HasTrackStatus(m, t, dd) == dd \in m[t].tracks
ReverseDiagDir(dd) == (dd + 2) % DIAGDIR_END

\* Company::IsValidID(o) for the company pool cs; company o is cs[o + 1]
IsValidCompanyID(cs, o) == (o + 1) \in DOMAIN cs /\ cs[o + 1].valid

\* MakeRoadNormal (road_map.h): the crossing becomes a road without rail
MakeRoadNormal(m, t) ==
    [m EXCEPT ![t].sub = "ROAD_TILE_NORMAL", ![t].tracks = {},
              ![t].owner = m[t].road_owner]

\* MakeClear(t, CLEAR_GRASS, 0) (clear_map.h)
MakeClear(m, t) ==
    [m EXCEPT ![t] = [type |-> "MP_CLEAR", sub |-> "", flat |-> m[t].flat,
                      wc |-> "WATER_CLASS_INVALID", m2 |-> 0, m3 |-> 0, m4 |-> 0,
                      m6 |-> 0, m7 |-> 0, owner |-> OWNER_NONE, tracks |-> {}]]

---------------------------------------------------------------------------
(* GuessWaterClass (lines 73-142).  The result is the map after the call   *)
(* and the failure it raised, "none" when it returned normally.            *)

\* lines 99-128: the flags after the neighbours dir..DIAGDIR_END-1 have been
\* looked at, starting from the flags f; f.fail is set by the throw of line 111.
RECURSIVE ScanNeighbours(_, _, _, _)
ScanNeighbours(m, t, dir, f) ==
    IF dir = DIAGDIR_END \/ f.fail THEN f
    ELSE LET neighbour == TileAddByDiagDir(t, dir)
             type == GetTileType(m, neighbour)
             g == CASE type = "MP_WATER" ->
                         IF IsCoast(m, neighbour) THEN [f EXCEPT !.has_water = TRUE]
                         ELSE IF ~IsLock(m, neighbour) THEN
                             CASE GetWaterClass(m, neighbour) = "WATER_CLASS_SEA" ->
                                      [f EXCEPT !.has_water = TRUE]
                               [] GetWaterClass(m, neighbour) = "WATER_CLASS_CANAL" ->
                                      [f EXCEPT !.has_canal = TRUE]
                               [] GetWaterClass(m, neighbour) = "WATER_CLASS_RIVER" ->
                                      [f EXCEPT !.has_river = TRUE]
                               [] OTHER -> [f EXCEPT !.fail = TRUE]
                         ELSE f
                    [] type = "MP_RAILWAY" ->
                         [f EXCEPT !.has_water = f.has_water \/ IsRailGroundWater(m, neighbour)]
                    [] type = "MP_TREES" ->
                         [f EXCEPT !.has_water =
                             f.has_water \/ GB(m[neighbour].m2, 4, 2) = TREE_GROUND_SHORE]
                    [] OTHER -> f
         IN  ScanNeighbours(m, t, dir + 1, g)

\* Variant, for comparison: the border taken at the last row and column.
IsBorderTile_AtMapMax(t) ==
    TileX(t) = 0 \/ TileY(t) = 0 \/ TileX(t) = MapMaxX \/ TileY(t) = MapMaxY

\* line 89: tiles at map borders
IsBorderTile(t) ==
    TileX(t) = 0 \/ TileY(t) = 0 \/ TileX(t) = MapMaxX - 1 \/ TileY(t) = MapMaxY - 1

\* Variant, for comparison: river chosen whenever there is a river neighbour.
ClassFromFlags_RiverFirst(f) ==
    IF f.has_river THEN "WATER_CLASS_RIVER"
    ELSE IF f.has_canal \/ ~f.has_water THEN "WATER_CLASS_CANAL"
    ELSE "WATER_CLASS_SEA"

\* lines 135-141: the class chosen from the flags
ClassFromFlags(f) ==
    IF f.has_river /\ ~f.has_canal THEN "WATER_CLASS_RIVER"
    ELSE IF f.has_canal \/ ~f.has_water THEN "WATER_CLASS_CANAL"
    ELSE "WATER_CLASS_SEA"

\* Variant, for comparison: border tiles made canal.
GuessWaterClass_BorderCanal(m, t, allow_invalid) ==
    IF IsBorderTile(t)
    THEN [m |-> SetWaterClass(m, t, "WATER_CLASS_CANAL"), fail |-> "none"]
    ELSE [m |-> SetWaterClass(m, t, "WATER_CLASS_SEA"), fail |-> "none"]

\* Variant, for comparison: the failure of line 111 raised only when
\* allow_invalid is not set.
GuessWaterClass_FailOnlyIfStrict(m, t, allow_invalid) ==
    IF ~IsTileFlat(m, t) THEN
        IF allow_invalid
        THEN [m |-> SetWaterClass(m, t, "WATER_CLASS_INVALID"), fail |-> "none"]
        ELSE [m |-> m, fail |-> "Invalid water class for dry tile"]
    ELSE IF IsBorderTile(t) THEN
        [m |-> SetWaterClass(m, t, "WATER_CLASS_SEA"), fail |-> "none"]
    ELSE
        LET f == ScanNeighbours(m, t, 0,
                     [has_water |-> FALSE, has_canal |-> FALSE,
                      has_river |-> FALSE, fail |-> FALSE])
        IN  IF f.fail /\ ~allow_invalid
            THEN [m |-> m, fail |-> "Invalid water class for tile"]
            ELSE IF ~f.has_water /\ ~f.has_canal /\ ~f.has_river /\ allow_invalid
            THEN [m |-> SetWaterClass(m, t, "WATER_CLASS_INVALID"), fail |-> "none"]
            ELSE [m |-> SetWaterClass(m, t, ClassFromFlags(f)), fail |-> "none"]

\* Variant, for comparison: no failure and allow_invalid not looked at.
GuessWaterClass_InvalidIgnored(m, t, allow_invalid) ==
    LET f == ScanNeighbours(m, t, 0,
                 [has_water |-> FALSE, has_canal |-> FALSE,
                  has_river |-> FALSE, fail |-> FALSE])
    IN  IF ~IsTileFlat(m, t) \/ IsBorderTile(t) \/ f.fail
        THEN [m |-> m, fail |-> "none"]
        ELSE [m |-> SetWaterClass(m, t, ClassFromFlags(f)), fail |-> "none"]

GuessWaterClass(m, t, allow_invalid) ==
    IF ~IsTileFlat(m, t) THEN
        IF allow_invalid
        THEN [m |-> SetWaterClass(m, t, "WATER_CLASS_INVALID"), fail |-> "none"]
        ELSE [m |-> m, fail |-> "Invalid water class for dry tile"]
    ELSE IF IsBorderTile(t) THEN
        [m |-> SetWaterClass(m, t, "WATER_CLASS_SEA"), fail |-> "none"]
    ELSE
        LET f == ScanNeighbours(m, t, 0,
                     [has_water |-> FALSE, has_canal |-> FALSE,
                      has_river |-> FALSE, fail |-> FALSE])
        IN  IF f.fail THEN [m |-> m, fail |-> "Invalid water class for tile"]
            ELSE IF ~f.has_water /\ ~f.has_canal /\ ~f.has_river /\ allow_invalid
            THEN [m |-> SetWaterClass(m, t, "WATER_CLASS_INVALID"), fail |-> "none"]
            ELSE [m |-> SetWaterClass(m, t, ClassFromFlags(f)), fail |-> "none"]

---------------------------------------------------------------------------
(* Bridges and vehicles (tunnelbridge_map.h, direction_func.h).  A bridge  *)
(* head keeps its DiagDirection, the direction from the head onto the      *)
(* bridge, in the two bits modelled by m2.                                 *)

IsBridgeTile(m, t) == m[t].type = "MP_TUNNELBRIDGE" /\ m[t].sub = "bridge"

\* GetTunnelBridgeDirection reads a field of two bits
GetTunnelBridgeDirection(m, t) == GB(m[t].m2, 0, 2)

\* DirToDiagDir(dir) is dir >> 1, DiagDirToDir(dir) is dir * 2 + 1
DirToDiagDir(dir) == dir \div 2
DiagDirToDir(dir) == dir * 2 + 1

\* GetOtherTunnelBridgeEnd: follow the direction of the head to the next head
RECURSIVE FindBridgeHead(_, _, _, _)
FindBridgeHead(m, t, dir, n) ==
    LET next == TileAddByDiagDir(t, dir)
    IN  IF n = 0 \/ next \notin DOMAIN m THEN t
        ELSE IF IsBridgeTile(m, next) THEN next
        ELSE FindBridgeHead(m, next, dir, n - 1)

GetOtherTunnelBridgeEnd(m, t) ==
    FindBridgeHead(m, t, GetTunnelBridgeDirection(m, t), MapSizeX)

\* GetNorthernBridgeEnd of a tile below a bridge: the head towards NE or NW
GetNorthernBridgeEnd(m, t) ==
    LET ne == FindBridgeHead(m, t, DIAGDIR_NE, MapSizeX)
    IN  IF IsBridgeTile(m, ne) THEN ne ELSE FindBridgeHead(m, t, DIAGDIR_NW, MapSizeX)

IsGroundVehicle(v) == v.type \in {"VEH_TRAIN", "VEH_ROAD"}

MinOf(S) == CHOOSE x \in S : \A y \in S : x <= y

\* Variant, for comparison: a track without train and without connected
\* neighbour is left as it is.
FixOwnerOfRailTrack_KeepTrack(m, vs, cs, t) ==
    LET on == { i \in DOMAIN vs :
                  vs[i].valid /\ vs[i].type = "VEH_TRAIN" /\ vs[i].tile = t }
    IN  IF on # {} THEN SetTileOwner(m, t, vs[MinOf(on)].owner) ELSE m

\* FixOwnerOfRailTrack (lines 208-247) on the map m, with the vehicle pool vs
\* and the company pool cs.
FixOwnerOfRailTrack(m, vs, cs, t) ==
    LET on == { i \in DOMAIN vs :
                  vs[i].valid /\ vs[i].type = "VEH_TRAIN" /\ vs[i].tile = t }
        connected == { dd \in DIAGDIR_NE..DIAGDIR_NW :
                         /\ HasTrackStatus(m, t, dd)
                         /\ HasTrackStatus(m, TileAddByDiagDir(t, dd), ReverseDiagDir(dd))
                         /\ IsValidCompanyID(cs, GetTileOwner(m, TileAddByDiagDir(t, dd))) }
    IN  IF on # {} THEN SetTileOwner(m, t, vs[MinOf(on)].owner)
        ELSE IF connected # {}
        THEN SetTileOwner(m, t, GetTileOwner(m, TileAddByDiagDir(t, MinOf(connected))))
        ELSE IF IsLevelCrossingTile(m, t) THEN MakeRoadNormal(m, t)
        ELSE MakeClear(m, t)

---------------------------------------------------------------------------
(* The store: what the chunk handlers decoded before AfterLoadGame runs.   *)

Store ==
    [pause_mode |-> _pause_mode, date_fract |-> _date_fract,
     settings |-> _settings_game, trains |-> trains, m |-> _m,
     objects |-> objects, num_towns |-> num_towns, stations |-> stations,
     vehicles |-> vehicles, companies |-> companies, subsidies |-> subsidies]

\* Settings as a new game would set them, and as the backfill sets them.
NewGameSettings ==
    [modified_catchment |-> TRUE, forbid_90_deg |-> TRUE,
     train_acceleration_model |-> 1, plane_speed |-> 1, dynamic_engines |-> 1,
     station_noise_level |-> TRUE, roadveh_acceleration_model |-> 1,
     train_slope_steepness |-> 5, feeder_payment_share |-> 50,
     plane_crashes |-> 1, roadveh_slope_steepness |-> 5,
     allow_town_level_crossings |-> FALSE, max_train_length |-> 7,
     max_bridge_length |-> 16, max_tunnel_length |-> 16,
     infrastructure_maintenance |-> TRUE,
     distribution_pax |-> "DT_ASYMMETRIC", distribution_mail |-> "DT_ASYMMETRIC",
     distribution_armoured |-> "DT_SYMMETRIC", distribution_default |-> "DT_ASYMMETRIC",
     snow_line_height |-> 7]

\* lines 479-504: the value each backfill assigns
LegacySettings ==
    [modified_catchment |-> FALSE, forbid_90_deg |-> FALSE,
     train_acceleration_model |-> 0, plane_speed |-> 4, dynamic_engines |-> 0,
     station_noise_level |-> FALSE, roadveh_acceleration_model |-> 0,
     train_slope_steepness |-> 3, feeder_payment_share |-> 75,
     plane_crashes |-> 2, roadveh_slope_steepness |-> 7,
     allow_town_level_crossings |-> TRUE, max_train_length |-> LegacyMaxTrainLength,
     max_bridge_length |-> 64, max_tunnel_length |-> 64,
     infrastructure_maintenance |-> FALSE,
     distribution_pax |-> "DT_MANUAL", distribution_mail |-> "DT_MANUAL",
     distribution_armoured |-> "DT_MANUAL", distribution_default |-> "DT_MANUAL",
     snow_line_height |-> 7]

\* The settings each backfill line assigns.
BackfillFields(line) ==
    CASE line = 479 -> {"modified_catchment"}
      [] line = 480 -> {"forbid_90_deg"}
      [] line = 481 -> {"train_acceleration_model"}
      [] line = 482 -> {"plane_speed"}
      [] line = 483 -> {"dynamic_engines"}
      [] line = 484 -> {"station_noise_level"}
      [] line = 485 -> {"roadveh_acceleration_model", "train_slope_steepness"}
      [] line = 489 -> {"feeder_payment_share"}
      [] line = 490 -> {"plane_crashes"}
      [] line = 491 -> {"roadveh_slope_steepness"}
      [] line = 492 -> {"allow_town_level_crossings"}
      [] line = 493 -> {"max_train_length", "max_bridge_length", "max_tunnel_length"}
      [] line = 498 -> {"infrastructure_maintenance"}
      [] line = 499 -> {"distribution_pax", "distribution_mail",
                        "distribution_armoured", "distribution_default"}
      [] OTHER -> {}

\* Variant, for comparison: the decoded settings kept.
GatedEffect_KeepDecoded(line, s) == s

\* The effect of a "gated" step on the modelled store when its guard holds:
\* lines 479-504 assign settings; the other gated steps convert state the
\* model does not hold.
GatedEffect(line, s) ==
    [f \in DOMAIN s |-> IF f \in BackfillFields(line) THEN LegacySettings[f] ELSE s[f]]

---------------------------------------------------------------------------
(* The guards of the steps.                                                *)

Before(major, minor) == IsSavegameVersionBefore(stv, major, minor)

\* The version predicates of the guard of step i, evaluated on version v.
VersionGate(i, v) ==
    LET B(major) == IsSavegameVersionBeforeMajor(v, major)
        line == LineOf(i)
    IN  CASE line = 460  -> IsSavegameVersionBefore(v, 11, 1) \/ B(147)
          [] line = 823  -> ~B(27)
          [] line = 993  -> ~B(57) /\ B(59)
          [] line = 1075 -> ~B(93) /\ B(94)
          [] line = 1445 -> B(124) /\ ~B(1)
          [] line = 2033 -> B(164) /\ ~B(32)
          [] OTHER -> IsSavegameVersionBefore(v, ThresholdOf(i)[1], ThresholdOf(i)[2])

\* Variant, for comparison: the guards without their reads of the store.
StepApplies_VersionOnly(i) == VersionGate(i, stv)

\* Variant, for comparison: the steps without guard.
StepApplies_Unguarded(i) == TRUE

\* The whole guard of step i in the current state: lines 460, 1292 and 2029
\* also read the store.
StepApplies(i) ==
    LET line == LineOf(i)
    IN  CASE line = 460  -> \/ Before(11, 1)
                            \/ (Before(147, 0) /\ _date_fract > DAY_TICKS)
          [] line = 1292 -> Before(147, 0) /\ Len(objects) = 0
          [] line = 2029 -> /\ Before(164, 0)
                            /\ _settings_game.snow_line_height
                                   >= MIN_SNOWLINE_HEIGHT * TILE_HEIGHT
          [] OTHER -> VersionGate(i, stv)

---------------------------------------------------------------------------
(* The bodies of the steps that have an action of their own.               *)

NoFail(m) == [m |-> m, fail |-> "none"]

\* Variant, for comparison: the tiles that are not flat are not passed over.
RECURSIVE UpdateWaterClass86_AllTiles(_, _)
UpdateWaterClass86_AllTiles(m, t) ==
    IF t = MapSize THEN NoFail(m)
    ELSE LET r1 == IF IsTileType(m, t, "MP_WATER") /\ IsLock(m, t)
                   THEN GuessWaterClass(m, t, FALSE) ELSE NoFail(m)
             r2 == IF r1.fail # "none" THEN r1
                   ELSE IF IsTileType(r1.m, t, "MP_STATION")
                           /\ (IsDock(r1.m, t) \/ IsBuoy(r1.m, t))
                   THEN GuessWaterClass(r1.m, t, FALSE) ELSE r1
         IN  IF r2.fail # "none" THEN r2 ELSE UpdateWaterClass86_AllTiles(r2.m, t + 1)

\* lines 1114-1119, from tile t on
RECURSIVE UpdateWaterClass86(_, _)
UpdateWaterClass86(m, t) ==
    IF t = MapSize THEN NoFail(m)
    ELSE IF ~IsTileFlat(m, t) THEN UpdateWaterClass86(m, t + 1)
    ELSE LET r1 == IF IsTileType(m, t, "MP_WATER") /\ IsLock(m, t)
                   THEN GuessWaterClass(m, t, FALSE) ELSE NoFail(m)
             r2 == IF r1.fail # "none" THEN r1
                   ELSE IF IsTileType(r1.m, t, "MP_STATION")
                           /\ (IsDock(r1.m, t) \/ IsBuoy(r1.m, t))
                   THEN GuessWaterClass(r1.m, t, FALSE) ELSE r1
         IN  IF r2.fail # "none" THEN r2 ELSE UpdateWaterClass86(r2.m, t + 1)

\* lines 1123-1157, from tile t on: the water class at the map borders and
\* the owners of crossings and plain rail (the owners of water, buoys, road
\* stops and roads, lines 1132-1150, are not held); the tiles of the other
\* types are passed over
RECURSIVE UpdateOwners87(_, _, _, _)
UpdateOwners87(m, vs, cs, t) ==
    IF t = MapSize THEN m
    ELSE IF GetTileType(m, t) \notin {"MP_WATER", "MP_STATION", "MP_ROAD", "MP_RAILWAY"}
    THEN UpdateOwners87(m, vs, cs, t + 1)
    ELSE LET m1 == IF (IsTileType(m, t, "MP_WATER")
                          \/ (IsTileType(m, t, "MP_STATION") /\ IsBuoy(m, t)))
                      /\ IsBorderTile(t)
                   THEN SetWaterClass(m, t, "WATER_CLASS_SEA") ELSE m
             fix == ~IsValidCompanyID(cs, GetTileOwner(m1, t))
             m2 == IF (IsTileType(m1, t, "MP_STATION") /\ IsBuoy(m1, t))
                      \/ IsTileType(m1, t, "MP_WATER") THEN m1
                   ELSE IF IsTileType(m1, t, "MP_ROAD") THEN
                       IF IsLevelCrossingTile(m1, t) /\ fix
                       THEN FixOwnerOfRailTrack(m1, vs, cs, t) ELSE m1
                   ELSE IF IsPlainRailTile(m1, t) /\ fix
                   THEN FixOwnerOfRailTrack(m1, vs, cs, t)
                   ELSE m1
         IN  UpdateOwners87(m2, vs, cs, t + 1)

\* industry_map.h: the industry of the tile is built on water (an oil rig)
IsIndustryBuiltOnWater(m, t) == m[t].sub \in {"GFX_OILRIG_1", "GFX_OILRIG_2"}

\* lines 1212-1229, from tile t on (the house age of line 1226 is not held)
RECURSIVE UpdateWaterClass99(_, _)
UpdateWaterClass99(m, t) ==
    IF t = MapSize THEN NoFail(m)
    ELSE LET r1 == IF IsTileType(m, t, "MP_STATION") /\ IsOilRig(m, t)
                   THEN GuessWaterClass(m, t, TRUE) ELSE NoFail(m)
             r2 == IF r1.fail # "none" THEN r1
                   ELSE IF IsTileType(r1.m, t, "MP_INDUSTRY") THEN
                       IF IsIndustryBuiltOnWater(r1.m, t)
                       THEN GuessWaterClass(r1.m, t, TRUE)
                       ELSE NoFail(SetWaterClass(r1.m, t, "WATER_CLASS_INVALID"))
                   ELSE r1
         IN  IF r2.fail # "none" THEN r2 ELSE UpdateWaterClass99(r2.m, t + 1)

\* line 1310: the size of the object pool
ObjectPoolMaxSize == 65536

CanAllocateItem(objs) == Len(objs) < ObjectPoolMaxSize

\* CalcClosestTownFromTile with the towns of the model, which has town 0 when
\* it has a town
CalcClosestTownFromTile(t) == 0

GetObjectType(m, t) == m[t].sub

\* DoClearSquare
DoClearSquare(m, t) ==
    [m EXCEPT ![t] = Tile("MP_CLEAR", "", m[t].flat, "WATER_CLASS_INVALID", 0, 0)]

\* Variant, for comparison: the offset in y not taken off.
NorthernTile_XOnly(t, offset) == t - TileXY(GB(offset, 0, 4), 0)

\* line 1325: the root of an object tile that is at an offset
NorthernTile(t, offset) == t - TileXY(GB(offset, 0, 4), GB(offset, 4, 4))

\* lines 1294-1330, from tile t on
RECURSIVE MakeRealObjects(_, _, _)
MakeRealObjects(m, objs, t) ==
    IF t = MapSize THEN [m |-> m, objects |-> objs, fail |-> "none"]
    ELSE IF ~IsTileType(m, t, "MP_OBJECT") THEN MakeRealObjects(m, objs, t + 1)
    ELSE IF num_towns = 0 THEN MakeRealObjects(DoClearSquare(m, t), objs, t + 1)
    ELSE LET offset == m[t].m4
             m1 == [m EXCEPT ![t].m4 = 0]
         IN  IF offset = 0 THEN
                 IF ~CanAllocateItem(objs)
                 THEN [m |-> m1, objects |-> objs, fail |-> "STR_ERROR_TOO_MANY_OBJECTS"]
                 ELSE LET type == GetObjectType(m1, t)
                          size == IF type = "OBJECT_HQ" THEN 2 ELSE 1
                          o == [index |-> Len(objs), tile |-> t, w |-> size, h |-> size,
                                town |-> IF type = "OBJECT_STATUE" THEN m1[t].m2
                                         ELSE CalcClosestTownFromTile(t)]
                      IN  MakeRealObjects([m1 EXCEPT ![t].m2 = o.index],
                                          Append(objs, o), t + 1)
             ELSE MakeRealObjects(
                      [m1 EXCEPT ![t].m2 = m1[NorthernTile(t, offset)].m2], objs, t + 1)

\* line 528: the airport type of an oil rig
AT_OILRIG == 9

\* line 534: the airport type oil rigs had before version 139
OldOilRigAirportType == 15

\* Variant, for comparison: the loops over the stations pass over no record.
GatedStationsEffect_AnyRecord(line, sts) ==
    CASE line = 531 ->
           [i \in DOMAIN sts |->
               IF sts[i].has_airport /\ sts[i].airport_type = OldOilRigAirportType
               THEN [sts[i] EXCEPT !.airport_type = AT_OILRIG] ELSE sts[i]]
      [] line = 803 ->
           [i \in DOMAIN sts |-> [sts[i] EXCEPT !.last_vehicle_type = "VEH_INVALID"]]
      [] OTHER -> sts

\* lines 531-538 and 803-808: the effect of the gated steps of lines 531 and
\* 803 on the stations; FOR_ALL_STATIONS visits the valid items of the pool
GatedStationsEffect(line, sts) ==
    CASE line = 531 ->
           [i \in DOMAIN sts |->
               IF sts[i].valid /\ sts[i].has_airport
                  /\ sts[i].airport_type = OldOilRigAirportType
               THEN [sts[i] EXCEPT !.airport_type = AT_OILRIG] ELSE sts[i]]
      [] line = 803 ->
           [i \in DOMAIN sts |->
               IF sts[i].valid THEN [sts[i] EXCEPT !.last_vehicle_type = "VEH_INVALID"]
               ELSE sts[i]]
      [] OTHER -> sts

\* DeleteOilRig (station_cmd.cpp): the tile becomes water and keeps its water
\* class, and the station, which has no other part, is deleted
DeleteOilRig(m, sts, t) ==
    [m |-> [m EXCEPT ![t].type = "MP_WATER", ![t].sub = "clear", ![t].m2 = 0],
     stations |-> [sts EXCEPT ![m[t].m2].valid = FALSE,
                              ![m[t].m2].has_airport = FALSE]]

\* lines 573-629, from tile t on: the oil rigs (the road stops of line 587 are
\* not held)
RECURSIVE UpdateStationTiles(_, _, _)
UpdateStationTiles(m, sts, t) ==
    IF t = MapSize THEN [m |-> m, stations |-> sts]
    ELSE IF GetTileType(m, t) = "MP_STATION" /\ IsOilRig(m, t) THEN
        LET t1 == TileAddXY(t, 0, 1)
        IN  IF IsTileType(m, t1, "MP_INDUSTRY") /\ m[t1].sub = "GFX_OILRIG_1"
            THEN UpdateStationTiles(
                     m, [sts EXCEPT ![m[t].m2].airport_type = AT_OILRIG], t + 1)
            ELSE LET d == DeleteOilRig(m, sts, t)
                 IN  UpdateStationTiles(d.m, d.stations, t + 1)
    ELSE UpdateStationTiles(m, sts, t + 1)

\* lines 710-731 for one vehicle: the vehicle afterwards, and whether line 716
\* raised "Invalid vehicle direction"
InWormhole(v) == [v EXCEPT !.wormhole = TRUE]

FixBridgeVehicle(m, v) ==
    IF ~v.valid \/ ~IsGroundVehicle(v) THEN [v |-> v, fail |-> FALSE]
    ELSE IF IsBridgeTile(m, v.tile) THEN
        LET dir == GetTunnelBridgeDirection(m, v.tile)
            skip == [v |-> v, fail |-> FALSE]
            set == [v |-> InWormhole(v), fail |-> FALSE]
        IN  IF dir # DirToDiagDir(v.direction) THEN skip
            ELSE CASE dir = DIAGDIR_NE -> IF v.x_pos % 16 # 0 THEN skip ELSE set
                   [] dir = DIAGDIR_SE -> IF v.y_pos % 16 # TILE_SIZE - 1 THEN skip ELSE set
                   [] dir = DIAGDIR_SW -> IF v.x_pos % 16 # TILE_SIZE - 1 THEN skip ELSE set
                   [] dir = DIAGDIR_NW -> IF v.y_pos % 16 # 0 THEN skip ELSE set
                   [] OTHER -> [v |-> v, fail |-> TRUE]
    ELSE IF v.above
    THEN [v |-> InWormhole([v EXCEPT !.tile = GetNorthernBridgeEnd(m, v.tile)]),
          fail |-> FALSE]
    ELSE [v |-> v, fail |-> FALSE]

\* lines 709-732, from vehicle i on
RECURSIVE FixBridgeVehicles(_, _, _)
FixBridgeVehicles(m, vs, i) ==
    IF i > Len(vs) THEN [vehicles |-> vs, fail |-> "none"]
    ELSE LET r == FixBridgeVehicle(m, vs[i])
         IN  IF r.fail THEN [vehicles |-> vs, fail |-> "Invalid vehicle direction"]
             ELSE FixBridgeVehicles(m, [vs EXCEPT ![i] = r.v], i + 1)

\* lines 1798-1820 for one vehicle
MoveWormholeVehicle(m, v) ==
    IF ~v.valid \/ v.type \notin {"VEH_TRAIN", "VEH_ROAD", "VEH_SHIP"} THEN v
    ELSE IF v.wormhole /\ v.direction = DiagDirToDir(GetTunnelBridgeDirection(m, v.tile))
    THEN [v EXCEPT !.tile = GetOtherTunnelBridgeEnd(m, v.tile)]
    ELSE v

\* Pool<...>::GetIfValid: position i of a pool's sequence is the item of index
\* i, and a deleted item stays in the sequence as an invalid record
GetIfValid(pool, i) == i \in DOMAIN pool /\ pool[i].valid

\* lines 1203-1208: the front engines of trams are deleted; a warning is shown
\* for each
IsFrontTram(v) == v.valid /\ v.type = "VEH_ROAD" /\ v.front /\ v.tram

RemoveTrams(vs) ==
    [vehicles |-> [i \in DOMAIN vs |->
                      IF IsFrontTram(vs[i]) THEN [vs[i] EXCEPT !.valid = FALSE] ELSE vs[i]],
     shown |-> [k \in 1..Cardinality({i \in DOMAIN vs : IsFrontTram(vs[i])}) |->
                  "STR_WARNING_LOADGAME_REMOVED_TRAMS"]]

\* lines 1392-1398, from vehicle i on: the small UFOs heading for a vehicle
\* that is no valid front road vehicle are deleted
RECURSIVE RemoveSmallUfos(_, _)
RemoveSmallUfos(vs, i) ==
    IF i > Len(vs) THEN vs
    ELSE LET v == vs[i]
             lost == \/ ~GetIfValid(vs, v.dest_tile)
                     \/ vs[v.dest_tile].type # "VEH_ROAD"
                     \/ ~vs[v.dest_tile].front
         IN  IF v.valid /\ v.type = "VEH_DISASTER" /\ v.subtype = 2 /\ v.order_dest # 0
                /\ lost
             THEN RemoveSmallUfos([vs EXCEPT ![i].valid = FALSE], i + 1)
             ELSE RemoveSmallUfos(vs, i + 1)

\* Town::IsValidID and Industry::IsValidID: the towns have the indices below
\* num_towns; an industry is valid when a tile of the map belongs to it
IsValidTownID(nt, i) == i \in 0..(nt - 1)
IsValidIndustryID(m, i) ==
    \E t \in 0..(MapSize - 1) : m[t].type = "MP_INDUSTRY" /\ m[t].m2 = i

\* Variant, for comparison: the owners of the two stations are not compared.
ConvertSubsidy_AnyOwners(s, m, sts, cs, nt) ==
    IF ~s.valid THEN s
    ELSE IF s.remaining < 12 THEN
        LET c == [s EXCEPT !.remaining = 12 - s.remaining, !.awarded = INVALID_COMPANY]
            r == CASE s.town_effect \in {"TE_PASSENGERS", "TE_MAIL"} ->
                        [s |-> [c EXCEPT !.src_type = "ST_TOWN", !.dst_type = "ST_TOWN"],
                         keep |-> IsValidTownID(nt, s.src) /\ IsValidTownID(nt, s.dst)]
                   [] s.town_effect \in {"TE_GOODS", "TE_FOOD"} ->
                        [s |-> [c EXCEPT !.src_type = "ST_INDUSTRY", !.dst_type = "ST_TOWN"],
                         keep |-> IsValidIndustryID(m, s.src) /\ IsValidTownID(nt, s.dst)]
                   [] OTHER ->
                        [s |-> [c EXCEPT !.src_type = "ST_INDUSTRY",
                                         !.dst_type = "ST_INDUSTRY"],
                         keep |-> IsValidIndustryID(m, s.src)
                                  /\ IsValidIndustryID(m, s.dst)]
        IN  IF r.keep THEN r.s ELSE [r.s EXCEPT !.valid = FALSE]
    ELSE
        LET c == [s EXCEPT !.remaining = (24 - s.remaining) % 256]
        IN  IF /\ s.town_effect \in {"TE_PASSENGERS", "TE_MAIL"}
               /\ GetIfValid(sts, s.src) /\ GetIfValid(sts, s.dst)
               /\ IsValidCompanyID(cs, sts[s.src].owner)
            THEN [c EXCEPT !.src_type = "ST_TOWN", !.dst_type = "ST_TOWN",
                           !.src = sts[s.src].town, !.dst = sts[s.dst].town,
                           !.awarded = sts[s.src].owner]
            ELSE [c EXCEPT !.valid = FALSE]

\* lines 1465-1517 for one subsidy (remaining is a byte)
ConvertSubsidy(s, m, sts, cs, nt) ==
    IF ~s.valid THEN s
    ELSE IF s.remaining < 12 THEN
        LET c == [s EXCEPT !.remaining = 12 - s.remaining, !.awarded = INVALID_COMPANY]
            r == CASE s.town_effect \in {"TE_PASSENGERS", "TE_MAIL"} ->
                        [s |-> [c EXCEPT !.src_type = "ST_TOWN", !.dst_type = "ST_TOWN"],
                         keep |-> IsValidTownID(nt, s.src) /\ IsValidTownID(nt, s.dst)]
                   [] s.town_effect \in {"TE_GOODS", "TE_FOOD"} ->
                        [s |-> [c EXCEPT !.src_type = "ST_INDUSTRY", !.dst_type = "ST_TOWN"],
                         keep |-> IsValidIndustryID(m, s.src) /\ IsValidTownID(nt, s.dst)]
                   [] OTHER ->
                        [s |-> [c EXCEPT !.src_type = "ST_INDUSTRY",
                                         !.dst_type = "ST_INDUSTRY"],
                         keep |-> IsValidIndustryID(m, s.src)
                                  /\ IsValidIndustryID(m, s.dst)]
        IN  IF r.keep THEN r.s ELSE [r.s EXCEPT !.valid = FALSE]
    ELSE
        LET c == [s EXCEPT !.remaining = (24 - s.remaining) % 256]
        IN  IF /\ s.town_effect \in {"TE_PASSENGERS", "TE_MAIL"}
               /\ GetIfValid(sts, s.src) /\ GetIfValid(sts, s.dst)
               /\ sts[s.src].owner = sts[s.dst].owner
               /\ IsValidCompanyID(cs, sts[s.src].owner)
            THEN [c EXCEPT !.src_type = "ST_TOWN", !.dst_type = "ST_TOWN",
                           !.src = sts[s.src].town, !.dst = sts[s.dst].town,
                           !.awarded = sts[s.src].owner]
            ELSE [c EXCEPT !.valid = FALSE]

\* lines 1962-1965: the maximum train length after the trains i.. were seen
RECURSIVE MaxTrainLength(_, _, _)
MaxTrainLength(len, ts, i) ==
    IF i > Len(ts) THEN len
    ELSE MaxTrainLength(Max(ToUint8(len), ToUint8(CeilDiv(ts[i], TILE_SIZE))), ts, i + 1)

\* Variant, for comparison: a NewGRF mismatch tolerated in a network game.
CheckGRFConfig_Lenient(networking, res, pm) ==
    [fail |-> "none",
     pause_mode |-> IF res = "GLC_NOT_FOUND" THEN PM_PAUSED_ERROR ELSE pm,
     shown |-> CASE res = "GLC_COMPATIBLE" -> <<"STR_NEWGRF_COMPATIBLE_LOAD_WARNING">>
                 [] res = "GLC_NOT_FOUND" -> <<"STR_NEWGRF_DISABLED_WARNING">>
                 [] OTHER -> <<>>]

\* lines 440-457: the outcome of the NewGRF check for the answer res of
\* IsGoodGRFConfigList: the failure thrown, the pause mode and the error
\* messages shown.
CheckGRFConfig(networking, res, pm) ==
    IF networking /\ res # "GLC_ALL_GOOD"
    THEN [fail |-> "STR_NETWORK_ERROR_CLIENT_NEWGRF_MISMATCH", pause_mode |-> pm,
          shown |-> <<>>]
    ELSE [fail |-> "none",
          pause_mode |-> IF res = "GLC_NOT_FOUND" THEN PM_PAUSED_ERROR ELSE pm,
          shown |-> CASE res = "GLC_COMPATIBLE" -> <<"STR_NEWGRF_COMPATIBLE_LOAD_WARNING">>
                      [] res = "GLC_NOT_FOUND" -> <<"STR_NEWGRF_DISABLED_WARNING">>
                      [] OTHER -> <<>>]

\* The collaborator called at a line of kind "call".
CallAt(line) ==
    CASE line = 541 -> "AfterLoadVehicles"
      [] line = 810 -> "YapfNotifyTrackLayoutChange"
      [] line = 817 -> "GetCompanyRailtypes"
      [] line = 893 -> "UpdateHousesAndTowns"

\* AI::StartNew(c->index): an AI instance is attached to the company.
StartNew(c) == [c EXCEPT !.ai_instance = "started"]

\* Variant, for comparison: no AI is started.
StartMissingAIs_None(cs) == cs

\* lines 544-549
StartMissingAIs(cs) ==
    [i \in DOMAIN cs |->
        IF cs[i].valid /\ cs[i].is_ai /\ cs[i].ai_instance = "NULL"
        THEN StartNew(cs[i]) ELSE cs[i]]

\* DoStartupNewCompany(false): a company that is no AI takes the first slot.
DoStartupNewCompany(cs) ==
    LET c == [valid |-> TRUE, is_ai |-> FALSE, ai_instance |-> "NULL"]
    IN  IF Len(cs) = 0 THEN <<c>> ELSE [cs EXCEPT ![1] = c]

\* Company::IsValidID(COMPANY_FIRST)
IsFirstCompanyValid(cs) == Len(cs) > 0 /\ cs[1].valid

\* The calls of InitializeWindowsAndCaches (lines 163-201), in order.
InitializeWindowsAndCaches_ResetLast ==
    <<"InitializeWindowsAndCaches", "SetupColoursAndInitialWindow",
      "UpdateAllVirtCoords", "ResetViewportAfterLoadGame", "RecomputePrices",
      "GroupStatistics::UpdateAfterLoad", "Station::RecomputeIndustriesNearForAll",
      "RebuildSubsidisedSourceAndDestinationCache", "UpdateAirportsNoise",
      "CheckTrainsLengths", "ShowNewGRFError", "ShowAIDebugWindowIfAIError",
      "BuildOwnerLegend", "ResetWindowSystem">>

InitializeWindowsAndCaches ==
    <<"InitializeWindowsAndCaches", "ResetWindowSystem",
      "SetupColoursAndInitialWindow", "UpdateAllVirtCoords",
      "ResetViewportAfterLoadGame", "RecomputePrices",
      "GroupStatistics::UpdateAfterLoad", "Station::RecomputeIndustriesNearForAll",
      "RebuildSubsidisedSourceAndDestinationCache", "UpdateAirportsNoise",
      "CheckTrainsLengths", "ShowNewGRFError", "ShowAIDebugWindowIfAIError",
      "BuildOwnerLegend">>

---------------------------------------------------------------------------
(* The animation frame of the tiles (lines 1189-1197 and 1663-1692).       *)

\* The first type of the houses defined by NewGRFs.
NEW_HOUSE_OFFSET == 110

\* GetHouseType(t): the type of a house tile, held as such
GetHouseType(tile) == tile.sub

\* min(a, b)
Min(a, b) == IF a <= b THEN a ELSE b

\* Variant, for comparison: the frame stays where it was decoded.
ExtendHouseAnimationFrame_Keep(tile) == tile

\* lines 1192-1195: the animation frame of a new house goes from 5 to 7 bits
ExtendHouseAnimationFrame(tile) ==
    IF tile.type = "MP_HOUSE" /\ GetHouseType(tile) >= NEW_HOUSE_OFFSET
    THEN [tile EXCEPT !.m6 = SB(tile.m6, 2, 6, GB(tile.m6, 3, 5)),
                      !.m3 = SB(tile.m3, 5, 1, 0)]
    ELSE tile

\* lines 1666-1690: the animation frame moves to m7
MoveAnimationFrame(tile) ==
    CASE tile.type = "MP_HOUSE" ->
           IF GetHouseType(tile) >= NEW_HOUSE_OFFSET
           THEN LET per_proc == tile.m7
                IN  [tile EXCEPT !.m7 = GB(tile.m6, 2, 6) + GB(tile.m3, 5, 1) * 64,
                                 !.m3 = SB(tile.m3, 5, 1, 0),
                                 !.m6 = SB(tile.m6, 2, 6, Min(per_proc, 63))]
           ELSE tile
      [] tile.type = "MP_INDUSTRY" ->
           LET rand == tile.m7
           IN  [tile EXCEPT !.m7 = tile.m3, !.m3 = rand]
      [] tile.type = "MP_OBJECT" ->
           [tile EXCEPT !.m7 = tile.m3, !.m3 = 0]
      [] OTHER -> tile

---------------------------------------------------------------------------
(* The animated tile list and its clean-up (lines 1421-1443).              *)

\* The least size the list is allocated with.
InitialAnimatedTiles == 256

\* The signals of the process the model tells apart.
_signals_to_handle == {"SIGSEGV", "SIGABRT", "SIGFPE", "SIGBUS", "SIGILL"}
Signals == _signals_to_handle \cup {"SIGTERM"}

\* _tile_type_procs[type]->animate_tile_proc != NULL
HasAnimationProc(type) ==
    type \in {"MP_STATION", "MP_HOUSE", "MP_INDUSTRY", "MP_OBJECT"}

\* DeleteAnimatedTile(tile): the first entry of the tile leaves the list,
\* the entries behind it move up and the count goes down by one.
DeleteAnimatedTile(list, count, tile) ==
    IF \A k \in 1..count : list[k] # tile
    THEN [list |-> list, count |-> count]
    ELSE LET k == CHOOSE k \in 1..count :
                      list[k] = tile /\ \A j \in 1..(k - 1) : list[j] # tile
         IN  [list |-> [j \in 1..(count - 1) |-> IF j < k THEN list[j] ELSE list[j + 1]],
              count |-> count - 1]

\* Variant, for comparison: only the animation procedure decides.
RemoveAnimatedTile_ProcOnly(m, list, i) ==
    ~HasAnimationProc(GetTileType(m, list[i + 1]))

\* lines 1431-1434: the entry at index i (counted from 0) is to be removed:
\* its tile type has no animation procedure or an entry before it holds the
\* same tile
RemoveAnimatedTile(m, list, i) ==
    \/ ~HasAnimationProc(GetTileType(m, list[i + 1]))
    \/ \E j \in 0..(i - 1) : list[i + 1] = list[j + 1]

\* lines 1431-1440: one pass through the body of the loop
CleanAnimatedTile(m, list, count, i) ==
    IF RemoveAnimatedTile(m, list, i)
    THEN LET d == DeleteAnimatedTile(list, count, list[i + 1])
         IN  [list |-> d.list, count |-> d.count, i |-> i]
    ELSE [list |-> list, count |-> count, i |-> i + 1]

\* lines 1426-1441: the loop from index i on
RECURSIVE CleanAnimatedTiles(_, _, _, _)
CleanAnimatedTiles(m, list, count, i) ==
    IF i < count
    THEN LET r == CleanAnimatedTile(m, list, count, i)
         IN  CleanAnimatedTiles(m, r.list, r.count, r.i)
    ELSE [list |-> list, count |-> count, i |-> i]

---------------------------------------------------------------------------
(* AfterLoadGame (lines 290-2171): one action per kind of step.            *)

storevars == <<_pause_mode, _date_fract, _settings_game, trains, _m, objects,
               num_towns, stations, vehicles, companies, subsidies>>

\* The pools written only by the steps of lines 543-565 and 1461-1519.
poolvars == <<companies, subsidies>>

hostvars == <<stv, _networking, _network_server, _network_dedicated, map_size_x,
              gcf_res, _game_mode, entry, gwc, query>>

\* The animated tile list, written only by the step of lines 1421-1443.
animvars == <<_animated_tile_list, _animated_tile_count>>

\* What the chunk handlers and the crash handler work on.
sidevars == <<_animated_tile_allocated, reader, anit, handlers, crash>>

envvars == <<hostvars, animvars, sidevars>>

\* Variant, for comparison: the steps go on after a failure.
Reached_DespiteFailure(kind) == pc \in 1..NumSteps /\ KindOf(pc) = kind

\* The walk is at a step of the kind, and no step has thrown.
Reached(kind) == status = "running" /\ pc \in 1..NumSteps /\ KindOf(pc) = kind

\* Variant, for comparison: the next step passed over.
Advance_SkipNext(applied) ==
    /\ pc' = pc + 2
    /\ status' = status
    /\ executed' = Append(executed, LineOf(pc))
    /\ ran' = IF applied THEN ran \cup {LineOf(pc)} ELSE ran

\* The step at pc returned; applied tells whether its guard held.
Advance(applied) ==
    /\ pc' = pc + 1
    /\ status' = status
    /\ executed' = Append(executed, LineOf(pc))
    /\ ran' = IF applied THEN ran \cup {LineOf(pc)} ELSE ran

\* Variant, for comparison: the position moved past the failing step.
Throw_AndGoOn(failure, applied) ==
    /\ pc' = pc + 1
    /\ status' = failure
    /\ executed' = Append(executed, LineOf(pc))
    /\ ran' = IF applied THEN ran \cup {LineOf(pc)} ELSE ran

\* The step at pc threw: nothing of AfterLoadGame runs after it.
Throw(failure, applied) ==
    /\ pc' = pc
    /\ status' = failure
    /\ executed' = Append(executed, LineOf(pc))
    /\ ran' = IF applied THEN ran \cup {LineOf(pc)} ELSE ran

\* A step guarded by a version predicate alone.
GatedStep ==
    /\ Reached("gated")
    /\ LET applies == StepApplies(pc)
       IN  /\ _settings_game' = IF applies THEN GatedEffect(LineOf(pc), _settings_game)
                                ELSE _settings_game
           /\ stations' = IF applies THEN GatedStationsEffect(LineOf(pc), stations)
                          ELSE stations
           /\ Advance(applies)
    /\ UNCHANGED <<_pause_mode, _date_fract, trains, _m, objects, num_towns,
                   vehicles, calls>>
    /\ UNCHANGED poolvars
    /\ UNCHANGED envvars

\* Variant, for comparison: a dedicated server loads a game paused by an error.
PauseStep_ErrorTolerated ==
    /\ Reached("pause")
    /\ IF Before(119, 0) THEN
           /\ _pause_mode' = IF _pause_mode = 2 THEN PM_PAUSED_NORMAL ELSE PM_UNPAUSED
           /\ Advance(TRUE)
       ELSE IF ~_networking \/ _network_server THEN
           /\ _pause_mode' = BitAndNot(_pause_mode, PMB_PAUSED_NETWORK)
           /\ Advance(FALSE)
       ELSE
           /\ _pause_mode' = _pause_mode
           /\ Advance(FALSE)
    /\ UNCHANGED <<_date_fract, _settings_game, trains, _m, objects, num_towns,
                   stations, vehicles, calls>>
    /\ UNCHANGED poolvars
    /\ UNCHANGED envvars

\* lines 301-316
PauseStep ==
    /\ Reached("pause")
    /\ IF Before(119, 0) THEN
           /\ _pause_mode' = IF _pause_mode = 2 THEN PM_PAUSED_NORMAL ELSE PM_UNPAUSED
           /\ Advance(TRUE)
       ELSE IF _network_dedicated /\ BitAnd(_pause_mode, PM_PAUSED_ERROR) # 0 THEN
           /\ _pause_mode' = _pause_mode
           /\ Throw("SlCorrupt", FALSE)
       ELSE IF ~_networking \/ _network_server THEN
           /\ _pause_mode' = BitAndNot(_pause_mode, PMB_PAUSED_NETWORK)
           /\ Advance(FALSE)
       ELSE
           /\ _pause_mode' = _pause_mode
           /\ Advance(FALSE)
    /\ UNCHANGED <<_date_fract, _settings_game, trains, _m, objects, num_towns,
                   stations, vehicles, calls>>
    /\ UNCHANGED poolvars
    /\ UNCHANGED envvars

\* lines 440-457 (the gamelog is not held)
GRFStep ==
    /\ Reached("grf")
    /\ LET r == CheckGRFConfig(_networking, gcf_res, _pause_mode)
       IN  /\ _pause_mode' = r.pause_mode
           /\ calls' = calls \o r.shown
           /\ IF r.fail = "none" THEN Advance(FALSE) ELSE Throw("SlException", FALSE)
    /\ UNCHANGED <<_date_fract, _settings_game, trains, _m, objects, num_towns,
                   stations, vehicles>>
    /\ UNCHANGED poolvars
    /\ UNCHANGED envvars

\* Variant, for comparison: the collaborator called twice.
CallStep_Twice ==
    /\ Reached("call")
    /\ calls' = calls \o <<CallAt(LineOf(pc)), CallAt(LineOf(pc))>>
    /\ Advance(FALSE)
    /\ UNCHANGED storevars
    /\ UNCHANGED envvars

\* lines 541, 810, 817-821 and 893
CallStep ==
    /\ Reached("call")
    /\ calls' = Append(calls, CallAt(LineOf(pc)))
    /\ Advance(FALSE)
    /\ UNCHANGED storevars
    /\ UNCHANGED envvars

\* lines 543-549
AIStep ==
    /\ Reached("ai")
    /\ companies' = StartMissingAIs(companies)
    /\ Advance(FALSE)
    /\ UNCHANGED <<_pause_mode, _date_fract, _settings_game, trains, _m, objects,
                   num_towns, stations, vehicles, subsidies, calls>>
    /\ UNCHANGED envvars

\* Variant, for comparison: a store without towns is refused in every game mode.
TownsStep_AnyMode ==
    /\ Reached("towns")
    /\ IF num_towns = 0
       THEN Throw("SlException", FALSE) ELSE Advance(FALSE)
    /\ UNCHANGED calls
    /\ UNCHANGED storevars
    /\ UNCHANGED envvars

\* lines 551-554
TownsStep ==
    /\ Reached("towns")
    /\ IF _game_mode = "GM_NORMAL" /\ num_towns = 0
       THEN Throw("SlException", FALSE) ELSE Advance(FALSE)
    /\ UNCHANGED calls
    /\ UNCHANGED storevars
    /\ UNCHANGED envvars

\* lines 556-564 (the settings of the client's company are not held)
StartupStep ==
    /\ Reached("startup")
    /\ companies' =
           IF /\ ~IsFirstCompanyValid(companies)
              /\ (~_networking \/ (_networking /\ _network_server /\ ~_network_dedicated))
           THEN DoStartupNewCompany(companies) ELSE companies
    /\ Advance(FALSE)
    /\ UNCHANGED <<_pause_mode, _date_fract, _settings_game, trains, _m, objects,
                   num_towns, stations, vehicles, subsidies, calls>>
    /\ UNCHANGED envvars

\* line 460
DateFractStep ==
    /\ Reached("date_fract")
    /\ _date_fract' = IF StepApplies(pc) THEN _date_fract \div DateFractDivisor
                      ELSE _date_fract
    /\ Advance(StepApplies(pc))
    /\ UNCHANGED <<_pause_mode, _settings_game, trains, _m, objects, num_towns,
                   stations, vehicles, calls>>
    /\ UNCHANGED poolvars
    /\ UNCHANGED envvars

\* lines 573-629
StationsStep ==
    /\ Reached("stations")
    /\ LET r == UpdateStationTiles(_m, stations, 0)
       IN  _m' = r.m /\ stations' = r.stations
    /\ Advance(FALSE)
    /\ UNCHANGED <<_pause_mode, _date_fract, _settings_game, trains, objects,
                   num_towns, vehicles, calls>>
    /\ UNCHANGED poolvars
    /\ UNCHANGED envvars

\* lines 700-733
Step42 ==
    /\ Reached("step42")
    /\ IF ~StepApplies(pc) THEN vehicles' = vehicles /\ Advance(FALSE)
       ELSE LET r == FixBridgeVehicles(_m, vehicles, 1)
            IN  /\ vehicles' = r.vehicles
                /\ IF r.fail = "none" THEN Advance(TRUE) ELSE Throw("SlCorrupt", TRUE)
    /\ UNCHANGED <<_pause_mode, _date_fract, _settings_game, trains, _m, objects,
                   num_towns, stations, calls>>
    /\ UNCHANGED poolvars
    /\ UNCHANGED envvars

\* line 823
AfterLoadStationsStep ==
    /\ Reached("AfterLoadStations")
    /\ calls' = IF StepApplies(pc) THEN Append(calls, "AfterLoadStations") ELSE calls
    /\ Advance(FALSE)
    /\ UNCHANGED storevars
    /\ UNCHANGED envvars

\* lines 1110-1120
Step86 ==
    /\ Reached("step86")
    /\ IF ~StepApplies(pc) THEN _m' = _m /\ Advance(FALSE)
       ELSE LET r == UpdateWaterClass86(_m, 0)
            IN  /\ _m' = r.m
                /\ IF r.fail = "none" THEN Advance(TRUE) ELSE Throw("SlCorrupt", TRUE)
    /\ UNCHANGED <<_pause_mode, _date_fract, _settings_game, trains, objects,
                   num_towns, stations, vehicles, calls>>
    /\ UNCHANGED poolvars
    /\ UNCHANGED envvars

\* lines 1122-1157 (the pathfinder settings of lines 1159-1177 are not held)
Step87 ==
    /\ Reached("step87")
    /\ _m' = IF StepApplies(pc) THEN UpdateOwners87(_m, vehicles, companies, 0) ELSE _m
    /\ Advance(StepApplies(pc))
    /\ UNCHANGED <<_pause_mode, _date_fract, _settings_game, trains, objects,
                   num_towns, stations, vehicles, calls>>
    /\ UNCHANGED poolvars
    /\ UNCHANGED envvars

\* lines 1199-1209
Step62 ==
    /\ Reached("step62")
    /\ LET r == RemoveTrams(vehicles)
       IN  /\ vehicles' = IF StepApplies(pc) THEN r.vehicles ELSE vehicles
           /\ calls' = IF StepApplies(pc) THEN calls \o r.shown ELSE calls
    /\ Advance(StepApplies(pc))
    /\ UNCHANGED <<_pause_mode, _date_fract, _settings_game, trains, _m, objects,
                   num_towns, stations>>
    /\ UNCHANGED poolvars
    /\ UNCHANGED envvars

\* lines 1389-1399
Step121 ==
    /\ Reached("step121")
    /\ vehicles' = IF StepApplies(pc) THEN RemoveSmallUfos(vehicles, 1) ELSE vehicles
    /\ Advance(StepApplies(pc))
    /\ UNCHANGED <<_pause_mode, _date_fract, _settings_game, trains, _m, objects,
                   num_towns, stations, calls>>
    /\ UNCHANGED poolvars
    /\ UNCHANGED envvars

\* lines 1461-1519
Step125 ==
    /\ Reached("step125")
    /\ subsidies' =
           IF StepApplies(pc)
           THEN [i \in DOMAIN subsidies |->
                    ConvertSubsidy(subsidies[i], _m, stations, companies, num_towns)]
           ELSE subsidies
    /\ Advance(StepApplies(pc))
    /\ UNCHANGED <<_pause_mode, _date_fract, _settings_game, trains, _m, objects,
                   num_towns, stations, vehicles, companies, calls>>
    /\ UNCHANGED envvars

\* lines 1421-1443
Step122 ==
    /\ Reached("step122")
    /\ LET r == IF StepApplies(pc)
                THEN CleanAnimatedTiles(_m, _animated_tile_list, _animated_tile_count, 0)
                ELSE [list |-> _animated_tile_list, count |-> _animated_tile_count, i |-> 0]
       IN  /\ _animated_tile_list' = r.list
           /\ _animated_tile_count' = r.count
    /\ Advance(StepApplies(pc))
    /\ UNCHANGED storevars
    /\ UNCHANGED <<calls, hostvars, sidevars>>

\* lines 1189-1197
Step91 ==
    /\ Reached("step91")
    /\ _m' = IF StepApplies(pc)
             THEN [t \in DOMAIN _m |-> ExtendHouseAnimationFrame(_m[t])] ELSE _m
    /\ Advance(StepApplies(pc))
    /\ UNCHANGED <<_pause_mode, _date_fract, _settings_game, trains, objects,
                   num_towns, stations, vehicles, calls>>
    /\ UNCHANGED poolvars
    /\ UNCHANGED envvars

\* lines 1663-1692
Step147 ==
    /\ Reached("step147")
    /\ _m' = IF StepApplies(pc)
             THEN [t \in DOMAIN _m |-> MoveAnimationFrame(_m[t])] ELSE _m
    /\ Advance(StepApplies(pc))
    /\ UNCHANGED <<_pause_mode, _date_fract, _settings_game, trains, objects,
                   num_towns, stations, vehicles, calls>>
    /\ UNCHANGED poolvars
    /\ UNCHANGED envvars

\* lines 1211-1230
Step99 ==
    /\ Reached("step99")
    /\ IF ~StepApplies(pc) THEN _m' = _m /\ Advance(FALSE)
       ELSE LET r == UpdateWaterClass99(_m, 0)
            IN  /\ _m' = r.m
                /\ IF r.fail = "none" THEN Advance(TRUE) ELSE Throw("SlCorrupt", TRUE)
    /\ UNCHANGED <<_pause_mode, _date_fract, _settings_game, trains, objects,
                   num_towns, stations, vehicles, calls>>
    /\ UNCHANGED poolvars
    /\ UNCHANGED envvars

\* lines 1292-1331
ObjectsStep ==
    /\ Reached("objects")
    /\ IF ~StepApplies(pc) THEN _m' = _m /\ objects' = objects /\ Advance(FALSE)
       ELSE LET r == MakeRealObjects(_m, objects, 0)
            IN  /\ _m' = r.m
                /\ objects' = r.objects
                /\ IF r.fail = "none" THEN Advance(TRUE) ELSE Throw("SlException", TRUE)
    /\ UNCHANGED <<_pause_mode, _date_fract, _settings_game, trains, num_towns,
                   stations, vehicles, calls>>
    /\ UNCHANGED poolvars
    /\ UNCHANGED envvars

\* lines 1795-1821
WormholeStep ==
    /\ Reached("wormhole")
    /\ vehicles' = [i \in DOMAIN vehicles |-> MoveWormholeVehicle(_m, vehicles[i])]
    /\ Advance(FALSE)
    /\ UNCHANGED <<_pause_mode, _date_fract, _settings_game, trains, _m, objects,
                   num_towns, stations, calls>>
    /\ UNCHANGED poolvars
    /\ UNCHANGED envvars

\* lines 1953-1966 (reverse_at_signals is not held)
Step159 ==
    /\ Reached("step159")
    /\ _settings_game' =
           IF StepApplies(pc)
           THEN [_settings_game EXCEPT !.max_train_length =
                    MaxTrainLength(_settings_game.max_train_length, trains, 1)]
           ELSE _settings_game
    /\ Advance(StepApplies(pc))
    /\ UNCHANGED <<_pause_mode, _date_fract, trains, _m, objects, num_towns,
                   stations, vehicles, calls>>
    /\ UNCHANGED poolvars
    /\ UNCHANGED envvars

\* lines 2029-2031
SnowLineStep ==
    /\ Reached("snow")
    /\ _settings_game' =
           IF StepApplies(pc)
           THEN [_settings_game EXCEPT !.snow_line_height =
                    _settings_game.snow_line_height \div TILE_HEIGHT]
           ELSE _settings_game
    /\ Advance(StepApplies(pc))
    /\ UNCHANGED <<_pause_mode, _date_fract, trains, _m, objects, num_towns,
                   stations, vehicles, calls>>
    /\ UNCHANGED poolvars
    /\ UNCHANGED envvars

\* lines 2160-2171: the caches are rebuilt and AfterLoadGame returns
FinishStep ==
    /\ Reached("finish")
    /\ calls' = calls \o <<"AfterLoadRoadStops", "AfterLoadLabelMaps",
                           "AfterLoadCompanyStats", "AfterLoadStoryBook",
                           "GamelogPrintDebug">>
                      \o InitializeWindowsAndCaches \o <<"AfterLoadLinkGraphs">>
    /\ pc' = pc + 1
    /\ status' = "done"
    /\ executed' = Append(executed, LineOf(pc))
    /\ ran' = ran
    /\ UNCHANGED storevars
    /\ UNCHANGED envvars

Next ==
    \/ GatedStep
    \/ PauseStep
    \/ GRFStep
    \/ DateFractStep
    \/ CallStep
    \/ AIStep
    \/ TownsStep
    \/ StartupStep
    \/ StationsStep
    \/ Step42
    \/ AfterLoadStationsStep
    \/ Step86
    \/ Step87
    \/ Step91
    \/ Step62
    \/ Step99
    \/ ObjectsStep
    \/ Step121
    \/ Step122
    \/ Step125
    \/ Step147
    \/ WormholeStep
    \/ Step159
    \/ SnowLineStep
    \/ FinishStep

---------------------------------------------------------------------------
(* The stores AfterLoadGame is entered with.  A scenario is a decoded      *)
(* store together with the network state of the program; each family       *)
(* varies the part of the store some steps read and keeps the rest plain.  *)

ClearTile == Tile("MP_CLEAR", "", TRUE, "WATER_CLASS_INVALID", 0, 0)
WaterTile(wc) == Tile("MP_WATER", "clear", TRUE, wc, 0, 0)
CoastTile == Tile("MP_WATER", "coast", FALSE, "WATER_CLASS_SEA", 0, 0)
LockTile == Tile("MP_WATER", "lock", TRUE, "WATER_CLASS_INVALID", 0, 0)
RailTile(ground) == Tile("MP_RAILWAY", ground, TRUE, "WATER_CLASS_INVALID", 0, 0)
TreesTile(ground) == Tile("MP_TREES", "", TRUE, "WATER_CLASS_INVALID", ground * 16, 0)
StationTile(sub, station) == Tile("MP_STATION", sub, TRUE, "WATER_CLASS_INVALID", station, 0)
IndustryTile(gfx) == Tile("MP_INDUSTRY", gfx, TRUE, "WATER_CLASS_INVALID", 0, 0)
BridgeHead(dir) == Tile("MP_TUNNELBRIDGE", "bridge", TRUE, "WATER_CLASS_INVALID", dir, 0)
ObjectTile(type, m2, offset) == Tile("MP_OBJECT", type, TRUE, "WATER_CLASS_INVALID", m2, offset)

\* The map of side * side clear tiles, with the tiles of the function put
\* placed on it.
MapWith(side, put) ==
    [t \in 0..(side * side - 1) |-> IF t \in DOMAIN put THEN put[t] ELSE ClearTile]

At(side, x, y) == y * side + x

WalkMapSide == MaxMapSide

Company(valid, is_ai, ai_instance) ==
    [valid |-> valid, is_ai |-> is_ai, ai_instance |-> ai_instance]

BaseScenario ==
    [pause_mode |-> PM_UNPAUSED, networking |-> FALSE, server |-> FALSE,
     dedicated |-> FALSE, date_fract |-> 0, settings |-> NewGameSettings,
     trains |-> <<>>, m |-> MapWith(WalkMapSide, <<>>), objects |-> <<>>,
     num_towns |-> 1, stations |-> <<>>, vehicles |-> <<>>,
     gcf_res |-> "GLC_ALL_GOOD", game_mode |-> "GM_NORMAL",
     companies |-> <<Company(TRUE, FALSE, "NULL")>>,
     subsidies |-> <<>>, animated |-> <<0, 0>>]

\* Pause modes and network roles (read by lines 301-316).
NetworkScenarios ==
    { [BaseScenario EXCEPT !.pause_mode = pm, !.networking = n[1],
                           !.server = n[2], !.dedicated = n[3]] :
        pm \in {PM_UNPAUSED, PM_PAUSED_NORMAL, PM_PAUSED_SAVELOAD, PM_PAUSED_JOIN,
                PM_PAUSED_ERROR, PMB_PAUSED_NETWORK,
                PM_PAUSED_ERROR + PM_PAUSED_ACTIVE_CLIENTS},
        n \in {<<FALSE, FALSE, FALSE>>, <<TRUE, FALSE, FALSE>>,
               <<TRUE, TRUE, FALSE>>, <<TRUE, TRUE, TRUE>>} }

AnObject == [index |-> 0, tile |-> 0, w |-> 1, h |-> 1, town |-> 0]

\* What the guards of lines 460, 1292 and 2029 read.
GateScenarios ==
    { [BaseScenario EXCEPT !.date_fract = df, !.objects = os,
                           !.settings.snow_line_height = sl] :
        df \in {0, DAY_TICKS, DAY_TICKS + 1, 2 * DateFractDivisor},
        os \in {<<>>, <<AnObject>>},
        sl \in {MIN_SNOWLINE_HEIGHT, MIN_SNOWLINE_HEIGHT * TILE_HEIGHT,
                7 * TILE_HEIGHT} }

\* Decoded settings and the trains of the store (lines 479-504, 1953-1966).
TrainLengths ==
    {<<>>, <<TILE_SIZE>>} \cup
    { <<TILE_SIZE * (LegacyMaxTrainLength + k) - 1>> : k \in 0..MaxExtraTrainTiles }

SettingsScenarios ==
    { [BaseScenario EXCEPT !.settings = s, !.trains = ts] :
        s \in {NewGameSettings, LegacySettings}, ts \in TrainLengths }

\* A station of an owner, in town 0, last visited by a train.
Station(has_airport, airport_type, owner) ==
    [valid |-> TRUE, has_airport |-> has_airport, airport_type |-> airport_type,
     last_vehicle_type |-> "VEH_TRAIN", owner |-> owner, town |-> 0]

\* A water-side tile at (1,1) between its neighbours at (0,1) and (2,1); an
\* oil rig station has its industry at (1,2).
WaterSideTiles ==
    { <<StationTile("dock", 0), ClearTile, <<>> >>,
      <<StationTile("buoy", 0), ClearTile, <<>> >>,
      <<LockTile, ClearTile, <<>> >>,
      <<StationTile("oilrig", 1), IndustryTile("GFX_OILRIG_1"),
        <<Station(TRUE, OldOilRigAirportType, 0)>> >>,
      <<StationTile("oilrig", 1), ClearTile,
        <<Station(TRUE, AT_OILRIG, 0)>> >>,
      <<IndustryTile("GFX_OILRIG_1"), ClearTile, <<>> >>,
      <<IndustryTile("GFX_COAL_MINE"), ClearTile, <<>> >> }

WaterScenarios ==
    { [BaseScenario EXCEPT
          !.m = MapWith(WalkMapSide,
                    (At(WalkMapSide, 1, 1) :> w[1]) @@ (At(WalkMapSide, 1, 2) :> w[2])
                    @@ (At(WalkMapSide, 0, 1) :> a) @@ (At(WalkMapSide, 2, 1) :> b)),
          !.stations = w[3]] :
        w \in WaterSideTiles,
        a \in {ClearTile, WaterTile("WATER_CLASS_SEA"), WaterTile("WATER_CLASS_RIVER"),
               WaterTile("WATER_CLASS_INVALID")},
        b \in {ClearTile, WaterTile("WATER_CLASS_CANAL")} }

\* A bridge from (0,2) to (2,2) with a vehicle on its head or below it.
Vehicle(type, tile, direction, x_pos, above, wormhole) ==
    [valid |-> TRUE, type |-> type, tile |-> tile, direction |-> direction,
     x_pos |-> x_pos, y_pos |-> 8, above |-> above, wormhole |-> wormhole,
     owner |-> 0, front |-> TRUE, tram |-> FALSE, subtype |-> 0, order_dest |-> 0,
     dest_tile |-> 0]

BridgeMap ==
    MapWith(WalkMapSide, (At(WalkMapSide, 0, 2) :> BridgeHead(DIAGDIR_SW))
                         @@ (At(WalkMapSide, 2, 2) :> BridgeHead(DIAGDIR_NE)))

VehicleScenarios ==
    { [BaseScenario EXCEPT !.m = BridgeMap, !.vehicles = <<v>>] :
        v \in { Vehicle(type, At(WalkMapSide, 0, 2), DiagDirToDir(DIAGDIR_SW), x, FALSE, w) :
                  type \in {"VEH_TRAIN", "VEH_ROAD", "VEH_SHIP", "VEH_AIRCRAFT"},
                  x \in {TILE_SIZE - 1, TILE_SIZE \div 2}, w \in BOOLEAN }
              \cup
              { Vehicle(type, At(WalkMapSide, 1, 2), DiagDirToDir(DIAGDIR_SW), 24, a, FALSE) :
                  type \in {"VEH_TRAIN", "VEH_ROAD", "VEH_SHIP", "VEH_AIRCRAFT"},
                  a \in BOOLEAN } }

\* A headquarter of 2x2 tiles at (2,2), a statue at (0,0), a lighthouse at (3,0).
ObjectScenarios ==
    { [BaseScenario EXCEPT
          !.m = MapWith(WalkMapSide,
                    (At(WalkMapSide, 2, 2) :> ObjectTile("OBJECT_HQ", 0, 0))
                    @@ (At(WalkMapSide, 3, 2) :> ObjectTile("OBJECT_HQ", 0, 1))
                    @@ (At(WalkMapSide, 2, 3) :> ObjectTile("OBJECT_HQ", 0, 16))
                    @@ (At(WalkMapSide, 3, 3) :> ObjectTile("OBJECT_HQ", 0, 17))
                    @@ (IF statue THEN At(WalkMapSide, 0, 0) :> ObjectTile("OBJECT_STATUE", 0, 0)
                        ELSE <<>>)
                    @@ (IF light THEN At(WalkMapSide, 3, 0) :> ObjectTile("OBJECT_LIGHTHOUSE", 0, 0)
                        ELSE <<>>)),
          !.num_towns = n, !.game_mode = IF n = 0 THEN "GM_EDITOR" ELSE "GM_NORMAL"] :
        statue \in BOOLEAN, light \in BOOLEAN, n \in {0, 1} }

\* The answers of the NewGRF check in every network role (lines 440-457).
GRFScenarios ==
    { [BaseScenario EXCEPT !.gcf_res = g, !.networking = n[1], !.server = n[2],
                           !.pause_mode = pm] :
        g \in {"GLC_ALL_GOOD", "GLC_COMPATIBLE", "GLC_NOT_FOUND"},
        n \in {<<FALSE, FALSE>>, <<TRUE, FALSE>>, <<TRUE, TRUE>>},
        pm \in {PM_UNPAUSED, PM_PAUSED_NORMAL} }

\* Company pools with and without AI instances, and stores without towns
\* (lines 543-564).
CompanyScenarios ==
    { [BaseScenario EXCEPT !.companies = cs, !.networking = n[1], !.server = n[2],
                           !.dedicated = n[3]] :
        cs \in {<<>>, <<Company(FALSE, TRUE, "NULL")>>,
                <<Company(TRUE, TRUE, "NULL")>>,
                <<Company(TRUE, TRUE, "decoded")>>,
                <<Company(TRUE, FALSE, "NULL"), Company(TRUE, TRUE, "NULL")>>,
                <<Company(FALSE, FALSE, "NULL"), Company(TRUE, TRUE, "NULL"),
                  Company(TRUE, TRUE, "decoded")>>},
        n \in {<<FALSE, FALSE, FALSE>>, <<TRUE, FALSE, FALSE>>,
               <<TRUE, TRUE, FALSE>>, <<TRUE, TRUE, TRUE>>} }
    \cup
    { [BaseScenario EXCEPT !.num_towns = n, !.game_mode = g,
                           !.companies = <<Company(TRUE, TRUE, "NULL")>>] :
        n \in {0, 1}, g \in {"GM_NORMAL", "GM_EDITOR"} }

Scenarios ==
    NetworkScenarios \cup GateScenarios \cup SettingsScenarios \cup WaterScenarios
    \cup VehicleScenarios \cup ObjectScenarios \cup GRFScenarios
    \cup CompanyScenarios

\* The versions the stores are tagged with: around every threshold a step of
\* the model reads, and the newest ones.
WalkVersions ==
    { <<major, 0>> : major \in {0, 4, 11, 41, 42, 85, 86, 98, 99, 118, 119, 146, 147,
                                158, 159, 163, 164, 183, 184, 185} }
    \cup { <<4, minor>> : minor \in 1..MaxMinor } \cup {<<11, 1>>}

\* The state of the walk before the first step.
\* The store the chunk handlers decoded from a snapshot of version v.
Decoded(v, s, side) ==
    /\ stv = v
    /\ map_size_x = side
    /\ _pause_mode = s.pause_mode
    /\ _networking = s.networking
    /\ _network_server = s.server
    /\ _network_dedicated = s.dedicated
    /\ _date_fract = s.date_fract
    /\ _settings_game = s.settings
    /\ trains = s.trains
    /\ _m = s.m
    /\ objects = s.objects
    /\ num_towns = s.num_towns
    /\ stations = s.stations
    /\ vehicles = s.vehicles
    /\ gcf_res = s.gcf_res
    /\ _game_mode = s.game_mode
    /\ companies = s.companies
    /\ subsidies = s.subsidies
    /\ entry = [pause_mode |-> s.pause_mode, date_fract |-> s.date_fract,
                settings |-> s.settings, trains |-> s.trains, m |-> s.m,
                objects |-> s.objects, num_towns |-> s.num_towns,
                stations |-> s.stations, vehicles |-> s.vehicles,
                companies |-> s.companies, subsidies |-> s.subsidies]
    /\ ran = {}
    /\ executed = <<>>
    /\ calls = <<>>

\* AfterLoadGame is entered: the chunk handlers have returned and no fault
\* has been raised.
EnterAfterLoadGame(v, s, side) ==
    /\ Decoded(v, s, side)
    /\ _animated_tile_list = s.animated
    /\ _animated_tile_count = Len(s.animated)
    /\ _animated_tile_allocated = InitialAnimatedTiles
    /\ reader = [header |-> <<0, 0, 0, 0>>, bytes |-> <<>>, pos |-> 0]
    /\ anit = [at |-> "idle"]
    /\ handlers = [sig \in Signals |-> "SIG_DFL"]
    /\ crash = [at |-> "running"]

Init ==
    /\ \E v \in WalkVersions, s \in Scenarios : EnterAfterLoadGame(v, s, WalkMapSide)
    /\ pc = 1
    /\ status = "running"
    /\ gwc = [called |-> FALSE]
    /\ query = [asked |-> FALSE]

Spec == Init /\ [][Next]_vars

---------------------------------------------------------------------------
(* The steps of lines 1110-1230 (water classes, owners) on maps with       *)
(* water-side tiles on slopes and with rail of invalid owner.              *)

\* A rail tile or a level crossing with its owner and the sides of its track.
OwnedRailTile(sub, owner, tracks) ==
    [type |-> "MP_RAILWAY", sub |-> sub, flat |-> TRUE, wc |-> "WATER_CLASS_INVALID",
     m2 |-> 0, m3 |-> 0, m4 |-> 0, owner |-> owner, tracks |-> tracks]

CrossingTile(owner, tracks, road_owner) ==
    [type |-> "MP_ROAD", sub |-> "ROAD_TILE_CROSSING", flat |-> TRUE,
     wc |-> "WATER_CLASS_INVALID", m2 |-> 0, m3 |-> 0, m4 |-> 0, owner |-> owner,
     tracks |-> tracks, road_owner |-> road_owner]

\* Company 0 is valid, company 1 is not.  A track or crossing at (1,1) along
\* the x axis beside a rail tile at (2,1), with or without a train on it.
OwnerScenarios ==
    { [BaseScenario EXCEPT
          !.m = MapWith(WalkMapSide,
                    (At(WalkMapSide, 1, 1) :>
                         IF crossing
                         THEN CrossingTile(oa, {DIAGDIR_NE, DIAGDIR_SW}, OWNER_NONE)
                         ELSE OwnedRailTile("RAIL_GROUND_GRASS", oa, {DIAGDIR_NE, DIAGDIR_SW}))
                    @@ (At(WalkMapSide, 2, 1) :>
                         OwnedRailTile(IF depot THEN "RAIL_TILE_DEPOT" ELSE "RAIL_GROUND_GRASS",
                                       ob, IF joined THEN {DIAGDIR_NE} ELSE {DIAGDIR_SE}))),
          !.vehicles = IF train = MAX_COMPANIES THEN <<>>
                       ELSE <<[Vehicle("VEH_ROAD", At(WalkMapSide, 1, 1), 0, 8, FALSE, FALSE)
                                   EXCEPT !.owner = 1],
                              [Vehicle("VEH_TRAIN", At(WalkMapSide, 1, 1), 0, 8, FALSE, FALSE)
                                   EXCEPT !.owner = train]>>] :
        crossing \in BOOLEAN, oa \in {0, 1, OWNER_NONE}, ob \in {0, 1},
        joined \in BOOLEAN, depot \in BOOLEAN, train \in {0, 1, MAX_COMPANIES} }

\* A lock, dock or buoy at (1,1), flat or on a slope, with its decoded water
\* class, beside a tile at (2,1).
SlopeScenarios ==
    { [BaseScenario EXCEPT
          !.m = MapWith(WalkMapSide,
                    (At(WalkMapSide, 1, 1) :> [w EXCEPT !.flat = flat, !.wc = wc])
                    @@ (At(WalkMapSide, 2, 1) :> a))] :
        w \in {LockTile, StationTile("dock", 0), StationTile("buoy", 0),
               StationTile("oilrig", 0), IndustryTile("GFX_OILRIG_1")},
        flat \in BOOLEAN, wc \in {"WATER_CLASS_INVALID", "WATER_CLASS_RIVER"},
        a \in {ClearTile, WaterTile("WATER_CLASS_SEA"), WaterTile("WATER_CLASS_INVALID")} }

RepairVersions == { <<major, 0>> : major \in {85, 86, 87, 99} }

InitRepair ==
    /\ \E v \in RepairVersions, s \in OwnerScenarios \cup SlopeScenarios :
         EnterAfterLoadGame(v, s, WalkMapSide)
    /\ pc = StepAt(1110)
    /\ status = "running"
    /\ gwc = [called |-> FALSE]
    /\ query = [asked |-> FALSE]

NextRepair ==
    \/ Step86
    \/ Step87
    \/ Step91
    \/ GatedStep
    \/ Step62
    \/ Step99

SpecRepair == InitRepair /\ [][NextRepair]_vars

---------------------------------------------------------------------------
(* AfterLoadGame on the stores that differ in what the steps without       *)
(* version predicate read: NewGRF answers, network roles, companies, towns.*)

LoadVersions == { <<major, 0>> : major \in {0, 26, 27, 185} }

LoadScenarios == GRFScenarios \cup CompanyScenarios

InitLoad ==
    /\ \E v \in LoadVersions, s \in LoadScenarios : EnterAfterLoadGame(v, s, WalkMapSide)
    /\ pc = 1
    /\ status = "running"
    /\ gwc = [called |-> FALSE]
    /\ query = [asked |-> FALSE]

SpecLoad == InitLoad /\ [][Next]_vars

---------------------------------------------------------------------------
(* GuessWaterClass called on one tile of a small map.                      *)

NeighbourKinds ==
    {ClearTile, WaterTile("WATER_CLASS_SEA"), WaterTile("WATER_CLASS_CANAL"),
     WaterTile("WATER_CLASS_RIVER"), WaterTile("WATER_CLASS_INVALID"), CoastTile,
     LockTile, RailTile("RAIL_GROUND_WATER"), RailTile("RAIL_GROUND_GRASS"),
     TreesTile(TREE_GROUND_SHORE), TreesTile(0)}

\* The map of the given side with the tile at (x, y) a dock, flat or not, and
\* its four neighbours n[DIAGDIR_NE] .. n[DIAGDIR_NW].
WaterMap(side, x, y, flat, n) ==
    MapWith(side,
        (At(side, x, y) :> [StationTile("dock", 0) EXCEPT !.flat = flat])
        @@ (At(side, x - 1, y) :> n[DIAGDIR_NE]) @@ (At(side, x, y + 1) :> n[DIAGDIR_SE])
        @@ (At(side, x + 1, y) :> n[DIAGDIR_SW]) @@ (At(side, x, y - 1) :> n[DIAGDIR_NW]))

\* The neighbours tried around the tiles of the outer rows and columns.
EdgeNeighbourKinds ==
    {ClearTile, WaterTile("WATER_CLASS_SEA"), WaterTile("WATER_CLASS_CANAL"),
     WaterTile("WATER_CLASS_INVALID")}

\* The tiles GuessWaterClass is called on: every tile of the map but the
\* tiles of the last row that line 89 does not take for border tiles, whose
\* neighbour at y + 1 lies behind the map array.
ExaminedTiles(side) ==
    { p \in (0..(side - 1)) \X (0..(side - 1)) :
        p[2] = side - 1 => p[1] \in {0, side - 2} }

InitWater ==
    /\ \E side \in 3..MaxMapSide :
         \E p \in ExaminedTiles(side) :
           \E x \in {p[1]}, y \in {p[2]} :
           \E m \in { WaterMap(side, x, y, TRUE, n) :
                        n \in [DIAGDIR_NE..DIAGDIR_NW ->
                                 IF x \in 1..(side - 2) /\ y \in 1..(side - 2)
                                 THEN NeighbourKinds ELSE EdgeNeighbourKinds] }
                    \cup { WaterMap(side, x, y, FALSE, [d \in DIAGDIR_NE..DIAGDIR_NW |-> k]) :
                             k \in {ClearTile, WaterTile("WATER_CLASS_SEA")} } :
             /\ EnterAfterLoadGame(<<0, 0>>, [BaseScenario EXCEPT !.m = m], side)
             /\ gwc = [called |-> FALSE, t |-> At(side, x, y), allow_invalid |-> FALSE]
    /\ pc = 0
    /\ status = "ready"
    /\ query = [asked |-> FALSE]

GuessWaterClassCall ==
    /\ status = "ready"
    /\ \E allow_invalid \in BOOLEAN :
         LET r == GuessWaterClass(_m, gwc.t, allow_invalid)
         IN  /\ _m' = r.m
             /\ gwc' = [called |-> TRUE, t |-> gwc.t, allow_invalid |-> allow_invalid]
             /\ status' = IF r.fail = "none" THEN "returned" ELSE "SlCorrupt"
    /\ UNCHANGED <<stv, pc, ran, executed, _pause_mode, _networking, _network_server,
                   _network_dedicated, _date_fract, _settings_game, trains, map_size_x,
                   objects, num_towns, stations, vehicles, calls, gcf_res, _game_mode,
                   companies, subsidies, entry, query>>
    /\ UNCHANGED <<animvars, sidevars>>

NextWater == GuessWaterClassCall

SpecWater == InitWater /\ [][NextWater]_vars

---------------------------------------------------------------------------
(* The version oracle asked about the version of a store.                  *)

InitOracle ==
    /\ \E v \in (0..MaxQueryMajor) \X (0..MaxMinor) :
         EnterAfterLoadGame(v, BaseScenario, WalkMapSide)
    /\ pc = 0
    /\ status = "oracle"
    /\ gwc = [called |-> FALSE]
    /\ query = [asked |-> FALSE]

\* IsSavegameVersionBefore(stv, major, minor)
Ask(major, minor) ==
    /\ status = "oracle"
    /\ query' = [asked |-> TRUE, major |-> major, minor |-> minor, omitted |-> FALSE,
                 answer |-> IsSavegameVersionBefore(stv, major, minor)]
    /\ UNCHANGED <<pc, status, ran, executed, calls, gwc>>
    /\ UNCHANGED storevars
    /\ UNCHANGED <<stv, _networking, _network_server, _network_dedicated, map_size_x,
                   gcf_res, _game_mode, entry>>
    /\ UNCHANGED <<animvars, sidevars>>

\* IsSavegameVersionBefore(stv, major)
AskMajor(major) ==
    /\ status = "oracle"
    /\ query' = [asked |-> TRUE, major |-> major, minor |-> 0, omitted |-> TRUE,
                 answer |-> IsSavegameVersionBeforeMajor(stv, major)]
    /\ UNCHANGED <<pc, status, ran, executed, calls, gwc>>
    /\ UNCHANGED storevars
    /\ UNCHANGED <<stv, _networking, _network_server, _network_dedicated, map_size_x,
                   gcf_res, _game_mode, entry>>
    /\ UNCHANGED <<animvars, sidevars>>

NextOracle ==
    \/ \E major \in 0..MaxQueryMajor, minor \in 0..MaxMinor : Ask(major, minor)
    \/ \E major \in 0..MaxQueryMajor : AskMajor(major)

SpecOracle == InitOracle /\ [][NextOracle]_vars

---------------------------------------------------------------------------
(* The step of line 1292 on maps with legacy object tiles.                 *)

ObjectsMapSide == MaxMapSide - 1

Placements(side) ==
    [tile : 0..(side * side - 1),
     type : {"OBJECT_HQ", "OBJECT_STATUE", "OBJECT_LIGHTHOUSE"}]

\* The tiles of a placed object and the offset each tile keeps in m4.
Footprint(side, p) ==
    IF p.type = "OBJECT_HQ" THEN {p.tile, p.tile + 1, p.tile + side, p.tile + side + 1}
    ELSE {p.tile}

OffsetIn(side, p, t) == ((t - p.tile) % side) + 16 * ((t - p.tile) \div side)

\* p lies within the map and off the objects of L.
Fits(side, L, p) ==
    /\ p.type = "OBJECT_HQ" =>
           (p.tile % side) + 1 < side /\ (p.tile \div side) + 1 < side
    /\ \A q \in L : Footprint(side, p) \cap Footprint(side, q) = {}

\* The sets of at most k placed objects with their northern tiles from 'from'
\* on, all within the map and none overlapping another.
RECURSIVE Layouts(_, _, _)
Layouts(side, k, from) ==
    IF from >= side * side THEN {{}}
    ELSE LET rest == Layouts(side, k, from + 1)
         IN  rest \cup
             { {q[1]} \cup q[2] :
                 q \in { r \in {p \in Placements(side) : p.tile = from} \X rest :
                           Cardinality(r[2]) < k /\ Fits(side, r[2], r[1]) } }

LayoutMap(side, L) ==
    [t \in 0..(side * side - 1) |->
        IF \E p \in L : t \in Footprint(side, p)
        THEN LET p == CHOOSE q \in L : t \in Footprint(side, q)
             IN  ObjectTile(p.type, 0, OffsetIn(side, p, t))
        ELSE ClearTile]

InitObjects ==
    /\ \E L \in Layouts(ObjectsMapSide, MaxObjects, 0),
          c \in {<<146, <<>>, 1>>, <<146, <<>>, 0>>, <<146, <<AnObject>>, 1>>,
                 <<147, <<>>, 1>>} :
         EnterAfterLoadGame(<<c[1], 0>>,
                            [BaseScenario EXCEPT !.m = LayoutMap(ObjectsMapSide, L),
                                                 !.objects = c[2], !.num_towns = c[3],
                                                 !.game_mode = IF c[3] = 0 THEN "GM_EDITOR"
                                                               ELSE "GM_NORMAL"],
                            ObjectsMapSide)
    /\ pc = StepAt(1292)
    /\ status = "running"
    /\ gwc = [called |-> FALSE]
    /\ query = [asked |-> FALSE]

NextObjects == ObjectsStep

SpecObjects == InitObjects /\ [][NextObjects]_vars

---------------------------------------------------------------------------
(* The order of the steps.                                                 *)

Threshold(line) == ThresholdOf(StepAt(line))

VersionLeq(a, b) == a[1] < b[1] \/ (a[1] = b[1] /\ a[2] <= b[2])

\* The version-gated steps among the first n executed ones whose guard held.
GatedRan(n) ==
    {i \in 1..n : executed[i] \in ran /\ IsVersionGated(StepAt(executed[i]))}

BackfillBlock == {line \in 479..504 : \E i \in 1..NumSteps : LineOf(i) = line}

\* C1 as claimed: the thresholds of the version-gated steps that ran are
\* non-decreasing in the order of execution, i.e. the threshold of the step
\* that ran last is not below the threshold of any step that ran before it.
C1_ThresholdsNonDecreasing ==
    LET n == Len(executed)
    IN  (n > 0 /\ n \in GatedRan(n)) =>
            \A i \in GatedRan(n) : VersionLeq(Threshold(executed[i]), Threshold(executed[n]))

\* C1: the steps are executed in the order of the source, each once and none
\* skipped, whatever the version tag; the thresholds are non-decreasing along
\* that order only within the settings backfill of lines 479-504.
C1_SourceOrder ==
    LET n == Len(executed)
    IN  /\ n <= NumSteps
        /\ \A i \in 1..n : executed[i] = LineOf(i)
        /\ n > 1 => executed[n - 1] < executed[n]
        /\ status = "done" => n = NumSteps
        /\ (n > 0 /\ executed[n] \in BackfillBlock) =>
               \A i \in 1..n : executed[i] \in BackfillBlock =>
                   VersionLeq(Threshold(executed[i]), Threshold(executed[n]))

\* A store older than version 42 for which the step of line 691 (threshold
\* 114) ran and then the step of line 700 (threshold 42) ran.
C1_Witness ==
    /\ {691, 700} \subseteq ran
    /\ \E i, j \in 1..Len(executed) : i < j /\ executed[i] = 691 /\ executed[j] = 700

---------------------------------------------------------------------------
(* Stores tagged at the newest version.                                    *)

\* Every version predicate of a guard is false for version v.
IsNewest(v) == \A i \in 1..NumSteps : IsVersionGated(i) => ~VersionGate(i, v)

---------------------------------------------------------------------------
(* What decides whether a step performs its transformation.                *)

\* The step executed last is version-gated.
LastIsGated == Len(executed) > 0 /\ IsVersionGated(Len(executed))

LastRan == executed[Len(executed)] \in ran

\* C3 as claimed: whether a version-gated step performed its transformation
\* is decided by the version tag alone, i.e. an executed step has run exactly
\* when the version predicates of its guard hold for the tag.
C3_VersionAloneDecides ==
    LastIsGated => (LastRan <=> VersionGate(Len(executed), stv))

\* C3: a step performs its transformation only if the version predicates of
\* its guard hold, and for every step but three the version tag alone decides;
\* the steps of lines 460, 1292 and 2029 also read the store: the date
\* fraction (above DAY_TICKS), the object pool (empty) and the snow line
\* height (at least MIN_SNOWLINE_HEIGHT * TILE_HEIGHT).
C3_VersionAndThreeContentGuards ==
    LastIsGated =>
        LET n == Len(executed)
            line == executed[n]
        IN  /\ LastRan => VersionGate(n, stv)
            /\ line \notin {460, 1292, 2029} => (LastRan <=> VersionGate(n, stv))
            /\ line = 460 =>
                   (LastRan <=> \/ IsSavegameVersionBefore(stv, 11, 1)
                                \/ /\ IsSavegameVersionBeforeMajor(stv, 147)
                                   /\ entry.date_fract > DAY_TICKS)
            /\ line = 1292 =>
                   (LastRan <=> /\ IsSavegameVersionBeforeMajor(stv, 147)
                                /\ entry.objects = <<>>)
            /\ line = 2029 =>
                   (LastRan <=> /\ IsSavegameVersionBeforeMajor(stv, 164)
                                /\ entry.settings.snow_line_height
                                       >= MIN_SNOWLINE_HEIGHT * TILE_HEIGHT)

\* A store older than version 147 that already holds an object: the step of
\* line 1292 was executed and did not run although its version predicate holds.
C3_Witness ==
    /\ 1292 \notin ran
    /\ \E i \in 1..Len(executed) : executed[i] = 1292 /\ VersionGate(i, stv)
    /\ entry.objects # <<>>

---------------------------------------------------------------------------
(* The version oracle.                                                     *)

Lexicographic(a, c) == a[1] < c[1] \/ (a[1] = c[1] /\ a[2] < c[2])

\* C4: the oracle answers whether the version of the store is before the
\* threshold in the strict lexicographic order on (major, minor); an omitted
\* minor counts as 0; the relation is irreflexive, antisymmetric and
\* transitive; asking changes nothing of the store.
C4_OracleIsStrictLexicographicOrder ==
    query.asked =>
        LET q == <<query.major, query.minor>>
        IN  /\ query.answer <=> Lexicographic(stv, q)
            /\ query.omitted =>
                   /\ query.minor = 0
                   /\ query.answer <=> IsSavegameVersionBefore(stv, query.major, 0)
            /\ ~IsSavegameVersionBefore(stv, stv[1], stv[2])
            /\ query.answer => ~IsSavegameVersionBefore(q, stv[1], stv[2])
            /\ \A c \in (0..MaxQueryMajor) \X (0..MaxMinor) :
                   (query.answer /\ IsSavegameVersionBefore(q, c[1], c[2]))
                       => IsSavegameVersionBefore(stv, c[1], c[2])
            /\ Store = entry

\* The oracle was asked about a threshold of the major version of the store
\* with a greater minor, and answered that the store is older.
C4_Witness ==
    /\ query.asked
    /\ ~query.omitted
    /\ stv[1] = query.major
    /\ stv[2] < query.minor
    /\ query.answer

---------------------------------------------------------------------------
(* GuessWaterClass: what the neighbours of the tile were when it was       *)
(* called, read from the map at entry.                                     *)

NeighboursOf(t) == { TileAddByDiagDir(t, dir) : dir \in DIAGDIR_NE..DIAGDIR_NW }

PlainWater(m, n) == IsTileType(m, n, "MP_WATER") /\ ~IsCoast(m, n) /\ ~IsLock(m, n)

\* A neighbour that counts as sea: sea water, coast, flooded rail, trees on shore.
SeaNeighbour(m, n) ==
    \/ IsCoast(m, n)
    \/ PlainWater(m, n) /\ GetWaterClass(m, n) = "WATER_CLASS_SEA"
    \/ IsTileType(m, n, "MP_RAILWAY") /\ IsRailGroundWater(m, n)
    \/ IsTileType(m, n, "MP_TREES") /\ GB(m[n].m2, 4, 2) = TREE_GROUND_SHORE

CanalNeighbour(m, n) == PlainWater(m, n) /\ GetWaterClass(m, n) = "WATER_CLASS_CANAL"

RiverNeighbour(m, n) == PlainWater(m, n) /\ GetWaterClass(m, n) = "WATER_CLASS_RIVER"

InvalidNeighbour(m, n) ==
    /\ PlainWater(m, n)
    /\ GetWaterClass(m, n) \notin {"WATER_CLASS_SEA", "WATER_CLASS_CANAL", "WATER_CLASS_RIVER"}

DryNeighbour(m, n) ==
    /\ ~IsTileType(m, n, "MP_WATER")
    /\ ~SeaNeighbour(m, n)

HasSea == \E n \in NeighboursOf(gwc.t) : SeaNeighbour(entry.m, n)
HasCanal == \E n \in NeighboursOf(gwc.t) : CanalNeighbour(entry.m, n)
HasRiver == \E n \in NeighboursOf(gwc.t) : RiverNeighbour(entry.m, n)
HasInvalid == \E n \in NeighboursOf(gwc.t) : InvalidNeighbour(entry.m, n)

\* GuessWaterClass was called on a flat tile that is no border tile.
CalledOnFlatInnerTile ==
    gwc.called /\ IsTileFlat(entry.m, gwc.t) /\ ~IsBorderTile(gwc.t)

ResultClass == GetWaterClass(_m, gwc.t)

\* C5 as claimed: on a flat non-border tile river takes precedence over canal
\* and canal over sea; with a river and a canal neighbour the class is river.
C5_RiverBeatsCanal ==
    (CalledOnFlatInnerTile /\ status = "returned") =>
        /\ HasRiver => ResultClass = "WATER_CLASS_RIVER"
        /\ (~HasRiver /\ HasCanal) => ResultClass = "WATER_CLASS_CANAL"
        /\ (~HasRiver /\ ~HasCanal /\ HasSea) => ResultClass = "WATER_CLASS_SEA"

\* C5: on a flat non-border tile canal takes precedence over river and river
\* over sea: with a canal neighbour the class is canal (also when there is a
\* river neighbour), with a river and no canal neighbour it is river, with
\* only sea neighbours it is sea.
C5_CanalBeatsRiver ==
    (CalledOnFlatInnerTile /\ status = "returned") =>
        /\ HasCanal => ResultClass = "WATER_CLASS_CANAL"
        /\ (~HasCanal /\ HasRiver) => ResultClass = "WATER_CLASS_RIVER"
        /\ (~HasCanal /\ ~HasRiver /\ HasSea) => ResultClass = "WATER_CLASS_SEA"

\* The call returned on a flat non-border tile with a river and a canal
\* neighbour and made the tile canal.
C5_Witness ==
    /\ CalledOnFlatInnerTile
    /\ status = "returned"
    /\ HasRiver /\ HasCanal
    /\ ResultClass = "WATER_CLASS_CANAL"

\* C6 as claimed: on a flat non-border tile without sea, canal or river
\* neighbour the class becomes invalid if allow_invalid is set and canal
\* otherwise, and no failure is raised.
C6_NoWaterNeverFails ==
    (CalledOnFlatInnerTile /\ ~HasSea /\ ~HasCanal /\ ~HasRiver) =>
        /\ status = "returned"
        /\ ResultClass = IF gwc.allow_invalid THEN "WATER_CLASS_INVALID"
                         ELSE "WATER_CLASS_CANAL"

\* C6: on a flat non-border tile without sea, canal or river neighbour the
\* class becomes invalid if allow_invalid is set and canal otherwise, without
\* failure, provided no neighbour is plain water of an invalid class; with
\* such a neighbour the call raises the corrupt-data failure and the map is
\* left as it was.
C6_NoWaterFailsOnlyOnInvalidNeighbour ==
    (CalledOnFlatInnerTile /\ ~HasSea /\ ~HasCanal /\ ~HasRiver) =>
        IF HasInvalid
        THEN status = "SlCorrupt" /\ _m = entry.m
        ELSE /\ status = "returned"
             /\ ResultClass = IF gwc.allow_invalid THEN "WATER_CLASS_INVALID"
                              ELSE "WATER_CLASS_CANAL"

\* The call with allow_invalid set raised the failure on a flat non-border
\* tile that has no sea, canal or river neighbour.
C6_Witness ==
    /\ CalledOnFlatInnerTile
    /\ ~HasSea /\ ~HasCanal /\ ~HasRiver
    /\ gwc.allow_invalid
    /\ status = "SlCorrupt"

\* The tile is the centre of a 3x3 map, flat, with two sea and two dry neighbours.
CentreBetweenTwoSeaTwoDry ==
    /\ MapSizeX = 3 /\ MapSizeY = 3
    /\ gwc.t = TileXY(1, 1)
    /\ IsTileFlat(entry.m, gwc.t)
    /\ Cardinality({n \in NeighboursOf(gwc.t) :
           PlainWater(entry.m, n) /\ GetWaterClass(entry.m, n) = "WATER_CLASS_SEA"}) = 2
    /\ Cardinality({n \in NeighboursOf(gwc.t) : DryNeighbour(entry.m, n)}) = 2

\* C7: on a 3x3 map the call on the flat centre tile with two sea and two dry
\* neighbours returns and makes the tile sea, whatever allow_invalid is.
C7_CentreOf3x3IsSea ==
    (gwc.called /\ CentreBetweenTwoSeaTwoDry) =>
        status = "returned" /\ ResultClass = "WATER_CLASS_SEA"

\* The call with allow_invalid set made the centre of such a 3x3 map sea.
C7_Witness ==
    /\ gwc.called
    /\ CentreBetweenTwoSeaTwoDry
    /\ gwc.allow_invalid
    /\ ResultClass = "WATER_CLASS_SEA"

---------------------------------------------------------------------------
(* The objects made from the legacy object tiles.                          *)

LegacyObjectTiles == {t \in DOMAIN entry.m : IsTileType(entry.m, t, "MP_OBJECT")}

ZeroOffsetTiles == {t \in LegacyObjectTiles : entry.m[t].m4 = 0}

\* The tile the offset kept in m4 points back to.
RootOf(t) ==
    TileXY(TileX(t) - (entry.m[t].m4 % 16), TileY(t) - (entry.m[t].m4 \div 16))

\* The step of line 1292 ran to its end on a store with towns whose pool of
\* objects was empty.
ObjectsRelocated ==
    /\ 1292 \in ran
    /\ status = "running"
    /\ entry.num_towns > 0
    /\ entry.objects = <<>>

\* C8: after the object relocation on a store older than 147 with towns and an
\* empty pool, every object tile of zero offset has exactly one Object, whose
\* index is in m2 of the tile; every object tile of non-zero offset has in m2
\* the index of the Object of its northern tile; there are as many Objects as
\* object tiles of zero offset.
C8_OneObjectPerRootTile ==
    ObjectsRelocated =>
        /\ \A t \in ZeroOffsetTiles :
               /\ Cardinality({i \in DOMAIN objects : objects[i].tile = t}) = 1
               /\ _m[t].m2 \in 0..(Len(objects) - 1)
               /\ objects[_m[t].m2 + 1].tile = t
               /\ objects[_m[t].m2 + 1].index = _m[t].m2
        /\ \A t \in LegacyObjectTiles \ ZeroOffsetTiles :
               /\ RootOf(t) \in ZeroOffsetTiles
               /\ _m[t].m2 = _m[RootOf(t)].m2
               /\ objects[_m[t].m2 + 1].tile = RootOf(t)
        /\ Len(objects) = Cardinality(ZeroOffsetTiles)
        /\ \A i, j \in DOMAIN objects : objects[i].index = objects[j].index => i = j

\* The relocation ran on a map with a headquarter that is not the first
\* object: its four tiles carry the index of the one Object made for it.
C8_Witness ==
    /\ ObjectsRelocated
    /\ Len(objects) >= 2
    /\ \E t \in LegacyObjectTiles :
           /\ entry.m[t].m4 = 17
           /\ _m[t].m2 >= 1
           /\ _m[t].m2 = _m[RootOf(t)].m2

---------------------------------------------------------------------------
(* The settings after the backfill.                                        *)

\* The settings whose backfill applies to the version of the store.
BackfilledSettings ==
    UNION { BackfillFields(line) :
              line \in {l \in BackfillBlock :
                          IsSavegameVersionBefore(stv, Threshold(l)[1], Threshold(l)[2])} }

\* C9 as claimed: when AfterLoadGame returns, every setting whose backfill
\* applies to the version equals its legacy default (max_train_length 50).
C9_BackfilledEqualLegacy ==
    status = "done" =>
        \A f \in BackfilledSettings : _settings_game[f] = LegacySettings[f]

\* C9: when AfterLoadGame returns, every setting whose backfill applies to the
\* version equals its legacy default, except max_train_length, which is the
\* larger of 50 and the length in tiles (as uint8) of the longest train of
\* the store (lines 1962-1965).
C9_BackfilledEqualLegacyButTrainLength ==
    status = "done" =>
        /\ \A f \in BackfilledSettings \ {"max_train_length"} :
               _settings_game[f] = LegacySettings[f]
        /\ "max_train_length" \in BackfilledSettings =>
               LET len == _settings_game.max_train_length
                   tiles(i) == ToUint8(CeilDiv(entry.trains[i], TILE_SIZE))
               IN  /\ len >= LegacyMaxTrainLength
                   /\ \A i \in DOMAIN entry.trains : len >= tiles(i)
                   /\ \/ len = LegacyMaxTrainLength
                      \/ \E i \in DOMAIN entry.trains : len = tiles(i)

\* AfterLoadGame returned on a store older than 159 whose settings were
\* decoded otherwise and whose longest train is longer than 50 tiles: the
\* other settings are the legacy defaults and max_train_length is above 50.
C9_Witness ==
    /\ status = "done"
    /\ "max_train_length" \in BackfilledSettings
    /\ entry.settings.max_bridge_length # LegacySettings.max_bridge_length
    /\ _settings_game.max_bridge_length = LegacySettings.max_bridge_length
    /\ _settings_game.max_train_length > LegacyMaxTrainLength

---------------------------------------------------------------------------
(* The store after a corrupt-data failure.                                 *)

\* C10 as claimed: when AfterLoadGame aborts with a corrupt-data failure the
\* store equals the store at entry.
C10_FailureLeavesEntryStore == status = "SlCorrupt" => Store = entry

\* C10: when AfterLoadGame aborts with a corrupt-data failure it stops at the
\* failing step and rolls nothing back: the steps before it have been
\* executed and what they wrote is still in the store (the settings backfilled
\* for the version, the converted pause mode), while what only later steps
\* write (the object pool) is as at entry.
C10_FailureStopsWithoutRollback ==
    status = "SlCorrupt" =>
        /\ pc = Len(executed)
        /\ KindOf(pc) \in {"pause", "step42", "step86", "step99"}
        /\ \A i \in 1..pc : executed[i] = LineOf(i)
        /\ \A i \in 1..(pc - 1) :
               (LineOf(i) \in ran /\ LineOf(i) \in BackfillBlock) =>
                   \A f \in BackfillFields(LineOf(i)) :
                       _settings_game[f] = LegacySettings[f]
        /\ 301 \in ran =>
               _pause_mode = IF gcf_res = "GLC_NOT_FOUND" /\ pc > StepAt(440)
                             THEN PM_PAUSED_ERROR
                             ELSE IF entry.pause_mode = 2 THEN PM_PAUSED_NORMAL
                             ELSE PM_UNPAUSED
        /\ objects = entry.objects

\* The step of line 1110 raised the failure on a store whose settings had been
\* backfilled before: the store differs from the store at entry.
C10_Witness ==
    /\ status = "SlCorrupt"
    /\ KindOf(pc) = "step86"
    /\ _settings_game # entry.settings
    /\ Store # entry

---------------------------------------------------------------------------
(* A failure ends AfterLoadGame.                                           *)

Failed == status \in {"SlCorrupt", "SlException"}

\* C11: once a step has raised SlCorrupt or SlException, no later step of
\* AfterLoadGame executes (the steps reached are exactly the steps up to the
\* failing one, and no step is taken from a failed state), neither
\* InitializeWindowsAndCaches nor AfterLoadLinkGraphs nor any other call of
\* the last lines has been made, and the failure is not caught: the status
\* stays the failure.
C11_FailureEndsAfterLoadGame ==
    /\ [](Failed =>
            /\ pc \in 1..(NumSteps - 1)
            /\ Len(executed) = pc
            /\ \A i \in 1..pc : executed[i] = LineOf(i)
            /\ \A i \in DOMAIN calls :
                   calls[i] \notin {"InitializeWindowsAndCaches", "AfterLoadLinkGraphs",
                                    "ResetWindowSystem", "AfterLoadCompanyStats"})
    /\ [][status = "running" /\ (Failed' => pc' = pc)]_vars

\* The NewGRF check of line 450 raised SlException in a network game after
\* the steps before it had been executed, or the step of line 1110 raised
\* SlCorrupt.
C11_Witness ==
    /\ Failed
    /\ Len(executed) > 1
    /\ \/ status = "SlException" /\ KindOf(pc) = "grf"
       \/ status = "SlCorrupt" /\ KindOf(pc) = "step86"

---------------------------------------------------------------------------
(* The cache rebuilds of AfterLoadGame.                                    *)

\* How often a collaborator has been called.
CountOf(name, seq) == Cardinality({i \in DOMAIN seq : seq[i] = name})

\* The collaborators called by the step being taken.
CalledNow == { calls'[i] : i \in (Len(calls) + 1)..Len(calls') }

\* The rebuilds of lines 810-823 and those of lines 2163-2168.
EarlyRebuilds == {"YapfNotifyTrackLayoutChange", "GetCompanyRailtypes", "AfterLoadStations"}
LateRebuilds == {"AfterLoadCompanyStats", "InitializeWindowsAndCaches"}

\* Every step that carries a version predicate has been executed.
AllGatedExecuted == \A i \in 1..NumSteps : IsVersionGated(i) => i < pc

\* C12 as claimed: in a successful AfterLoadGame each of the cache rebuilds
\* runs exactly once, and only after the last version-gated step has been
\* executed.
C12_RebuildsOnceAfterLastGatedStep ==
    /\ [](status = "done" =>
            \A c \in EarlyRebuilds \cup LateRebuilds : CountOf(c, calls) = 1)
    /\ [][(CalledNow \cap (EarlyRebuilds \cup LateRebuilds) # {}) => AllGatedExecuted]_vars

\* C12: in a successful AfterLoadGame YapfNotifyTrackLayoutChange, the
\* per-company rail and road type masks, AfterLoadCompanyStats and
\* InitializeWindowsAndCaches run exactly once; AfterLoadStations runs once
\* for stores of version 27 or later and not at all for older stores.  Only
\* AfterLoadCompanyStats and InitializeWindowsAndCaches run after the last
\* version-gated step; the other three run at lines 810-823, while
\* version-gated steps are still to come.
C12_RebuildsEarlyAndLate ==
    /\ [](status = "done" =>
            /\ \A c \in (EarlyRebuilds \cup LateRebuilds) \ {"AfterLoadStations"} :
                   CountOf(c, calls) = 1
            /\ CountOf("AfterLoadStations", calls)
                   = IF IsSavegameVersionBeforeMajor(stv, 27) THEN 0 ELSE 1)
    /\ [][/\ (CalledNow \cap LateRebuilds # {}) => AllGatedExecuted
          /\ (CalledNow \cap EarlyRebuilds # {}) =>
                 /\ LineOf(pc) \in {810, 817, 823}
                 /\ ~AllGatedExecuted]_vars

\* AfterLoadGame returned on a store older than version 27: AfterLoadStations
\* was not called, the track layout notification was.
C12_Witness ==
    /\ status = "done"
    /\ IsSavegameVersionBeforeMajor(stv, 27)
    /\ CountOf("AfterLoadStations", calls) = 0
    /\ CountOf("YapfNotifyTrackLayoutChange", calls) = 1
    /\ CountOf("InitializeWindowsAndCaches", calls) = 1

---------------------------------------------------------------------------
(* ResetWindowSystem among the cache rebuilds.                             *)

\* The positions of a collaborator in the calls made so far.
PositionsOf(name) == {i \in DOMAIN calls : calls[i] = name}

\* The rebuilds made inside and after InitializeWindowsAndCaches, and the
\* ones made before it.
RebuildsOfInitialize ==
    {"RecomputePrices", "GroupStatistics::UpdateAfterLoad",
     "Station::RecomputeIndustriesNearForAll",
     "RebuildSubsidisedSourceAndDestinationCache", "AfterLoadLinkGraphs"}
RebuildsBeforeInitialize ==
    {"AfterLoadRoadStops", "AfterLoadLabelMaps", "AfterLoadCompanyStats",
     "AfterLoadStoryBook", "YapfNotifyTrackLayoutChange", "GetCompanyRailtypes",
     "AfterLoadStations", "UpdateHousesAndTowns", "AfterLoadVehicles"}

\* C13 as claimed: ResetWindowSystem is invoked exactly once per successful
\* AfterLoadGame, and no cache rebuild (prices, group statistics, industries
\* near stations, subsidy cache, link graphs) follows it.
C13_ResetAfterEveryRebuild ==
    status = "done" =>
        /\ CountOf("ResetWindowSystem", calls) = 1
        /\ \A r \in PositionsOf("ResetWindowSystem"), c \in RebuildsOfInitialize :
               \A j \in PositionsOf(c) : j < r

\* C13: ResetWindowSystem is invoked exactly once per successful
\* AfterLoadGame, as the first call of InitializeWindowsAndCaches: after the
\* rebuilds made before InitializeWindowsAndCaches, and before the price
\* recomputation, the group statistics, the industries near stations, the
\* subsidy cache and the link graphs, each of which runs once.
C13_ResetOnceBeforeItsRebuilds ==
    status = "done" =>
        /\ CountOf("ResetWindowSystem", calls) = 1
        /\ \A r \in PositionsOf("ResetWindowSystem") :
               /\ r > 1 /\ calls[r - 1] = "InitializeWindowsAndCaches"
               /\ \A c \in RebuildsOfInitialize :
                      /\ CountOf(c, calls) = 1
                      /\ \A j \in PositionsOf(c) : r < j
               /\ \A c \in RebuildsBeforeInitialize : \A j \in PositionsOf(c) : j < r
        /\ calls[Len(calls)] = "AfterLoadLinkGraphs"

\* AfterLoadGame returned, and the prices were recomputed after the window
\* system had been reset.
C13_Witness ==
    /\ status = "done"
    /\ \E r \in PositionsOf("ResetWindowSystem"), j \in PositionsOf("RecomputePrices") :
           r < j

---------------------------------------------------------------------------
(* The NewGRF compatibility check.                                         *)

\* The error messages shown by the step being taken.
ShownNow == [i \in 1..(Len(calls') - Len(calls)) |-> calls'[Len(calls) + i]]

\* C14: when the NewGRF check of lines 440-457 answers other than "all good",
\* a network game aborts with the NewGRF-mismatch failure (SlException)
\* without warning or pause; outside a network game the load goes on, a
\* warning is shown and, for NewGRFs not found, the pause mode becomes
\* paused-due-to-error.  When the answer is "all good" the load goes on
\* without warning and with the pause mode unchanged.
C14_NewGRFCheck ==
    [][(status = "running" /\ KindOf(pc) = "grf") =>
          IF gcf_res = "GLC_ALL_GOOD" THEN
              status' = "running" /\ ShownNow = <<>> /\ _pause_mode' = _pause_mode
          ELSE IF _networking THEN
              status' = "SlException" /\ ShownNow = <<>> /\ _pause_mode' = _pause_mode
          ELSE IF gcf_res = "GLC_NOT_FOUND" THEN
              /\ status' = "running"
              /\ ShownNow = <<"STR_NEWGRF_DISABLED_WARNING">>
              /\ _pause_mode' = PM_PAUSED_ERROR
          ELSE
              /\ status' = "running"
              /\ ShownNow = <<"STR_NEWGRF_COMPATIBLE_LOAD_WARNING">>
              /\ _pause_mode' = _pause_mode]_vars

\* Outside a network game the check found NewGRFs missing: the load went on
\* past line 457 with the warning shown and the game paused due to the error.
C14_Witness ==
    /\ status = "running"
    /\ pc = StepAt(440) + 1
    /\ gcf_res = "GLC_NOT_FOUND"
    /\ ~_networking
    /\ _pause_mode = PM_PAUSED_ERROR
    /\ entry.pause_mode # PM_PAUSED_ERROR
    /\ CountOf("STR_NEWGRF_DISABLED_WARNING", calls) = 1

---------------------------------------------------------------------------
(* AI companies and their instances.                                       *)

\* The companies decoded as valid AI companies without an AI instance.
DecodedWithoutAI ==
    { i \in DOMAIN entry.companies :
        /\ entry.companies[i].valid
        /\ entry.companies[i].is_ai
        /\ entry.companies[i].ai_instance = "NULL" }

\* C16: after a successful AfterLoadGame every valid company flagged is_ai has
\* an AI instance attached: a company decoded without one got a new instance
\* started, a company decoded with one kept it; and the step of lines 543-549
\* never fails, so a missing instance never causes a load failure.
C16_AICompaniesHaveInstance ==
    /\ [](status = "done" =>
            /\ \A i \in DOMAIN companies :
                   (companies[i].valid /\ companies[i].is_ai) =>
                       companies[i].ai_instance # "NULL"
            /\ \A i \in DecodedWithoutAI : companies[i].ai_instance = "started"
            /\ \A i \in DOMAIN entry.companies :
                   entry.companies[i].ai_instance = "decoded" =>
                       companies[i].ai_instance = "decoded")
    /\ [][(status = "running" /\ KindOf(pc) = "ai") => status' = "running"]_vars

\* AfterLoadGame returned on a store with an AI company decoded without
\* instance beside one decoded with its instance; the first got one started.
C16_Witness ==
    /\ status = "done"
    /\ \E i \in DecodedWithoutAI : companies[i].ai_instance = "started"
    /\ \E i \in DOMAIN companies : companies[i].ai_instance = "decoded"

---------------------------------------------------------------------------
(* GuessWaterClass beside water of an invalid class, and on the border.    *)

\* C17: GuessWaterClass called on a flat tile that line 89 does not take for
\* a border tile raises the corrupt-data failure whenever one of the four
\* neighbours is a water tile, neither coast nor lock, whose class is none of
\* sea, canal and river, for either value of allow_invalid; the map, and with
\* it the class of the examined tile, is as it was before the call.
C17_InvalidNeighbourFails ==
    (CalledOnFlatInnerTile /\ HasInvalid) =>
        /\ status = "SlCorrupt"
        /\ _m = entry.m

\* The call with allow_invalid set failed on a tile that has a neighbour of
\* invalid class beside a sea neighbour.
C17_Witness ==
    /\ CalledOnFlatInnerTile
    /\ gwc.allow_invalid
    /\ HasInvalid
    /\ HasSea
    /\ status = "SlCorrupt"
    /\ GetWaterClass(_m, gwc.t) = GetWaterClass(entry.m, gwc.t)

\* The tile is on the border as the claim has it: a coordinate is 0 or the
\* maximum coordinate of the map.
OnOuterRowOrColumn(t) ==
    TileX(t) = 0 \/ TileY(t) = 0 \/ TileX(t) = MapMaxX \/ TileY(t) = MapMaxY

---------------------------------------------------------------------------
(* The water class of water-side tiles on slopes.                          *)

\* The tiles the step of line 1110 looks at: locks, docks and buoys.
IsLockDockOrBuoy(m, t) ==
    \/ IsTileType(m, t, "MP_WATER") /\ IsLock(m, t)
    \/ IsTileType(m, t, "MP_STATION") /\ (IsDock(m, t) \/ IsBuoy(m, t))

\* C19: the version<86 step calls GuessWaterClass(t, false) on flat tiles
\* only, and the version<99 step calls it with allow_invalid set, so no call
\* made by AfterLoadGame raises "Invalid water class for dry tile"; the
\* version<86 step leaves every tile that is not flat, a lock, dock or buoy
\* with its decoded water class among them, as it was.
C19_NoDryTileFailure ==
    /\ [](/\ UpdateWaterClass86(_m, 0).fail # "Invalid water class for dry tile"
          /\ UpdateWaterClass99(_m, 0).fail # "Invalid water class for dry tile")
    /\ [][(status = "running" /\ KindOf(pc) = "step86") =>
              \A t \in DOMAIN _m : ~IsTileFlat(_m, t) => _m'[t] = _m[t]]_vars

\* The version<86 step has run on a map with a lock, dock or buoy on a slope
\* whose decoded class is river: the tile still has that class.
C19_Witness ==
    /\ status = "running"
    /\ pc = StepAt(1110) + 1
    /\ 1110 \in ran
    /\ \E t \in DOMAIN _m :
           /\ IsLockDockOrBuoy(_m, t)
           /\ ~IsTileFlat(_m, t)
           /\ GetWaterClass(entry.m, t) = "WATER_CLASS_RIVER"
           /\ GetWaterClass(_m, t) = "WATER_CLASS_RIVER"

---------------------------------------------------------------------------
(* The owners of rail tracks after the version<87 step.                    *)

IsTrackTile(m, t) == IsPlainRailTile(m, t) \/ IsLevelCrossingTile(m, t)

\* Every train of the store is owned by a valid company.
TrainOwnersValid ==
    \A i \in DOMAIN vehicles :
        (vehicles[i].valid /\ vehicles[i].type = "VEH_TRAIN") =>
            IsValidCompanyID(companies, vehicles[i].owner)

\* The tiles decoded as plain rail or level crossing with an owner that is no
\* valid company.
DecodedWithInvalidOwner ==
    { t \in DOMAIN entry.m :
        IsTrackTile(entry.m, t) /\ ~IsValidCompanyID(companies, GetTileOwner(entry.m, t)) }

\* The trains standing on tile t, and the sides on which t is connected to a
\* rail tile of a valid owner; the tiles before t have been repaired when t
\* is looked at, the tiles after t are as decoded.
TrainsOn(t) ==
    { i \in DOMAIN vehicles :
        vehicles[i].valid /\ vehicles[i].type = "VEH_TRAIN" /\ vehicles[i].tile = t }
ConnectedSides(t) ==
    { dd \in DIAGDIR_NE..DIAGDIR_NW :
        LET tt == TileAddByDiagDir(t, dd)
            seen == IF tt < t THEN _m ELSE entry.m
        IN  /\ HasTrackStatus(entry.m, t, dd)
            /\ HasTrackStatus(seen, tt, ReverseDiagDir(dd))
            /\ IsValidCompanyID(companies, GetTileOwner(seen, tt)) }

\* C20: after the version<87 step no plain rail tile and no level crossing has
\* an owner that is not a valid company, provided every train is owned by a
\* valid company: a tile decoded with such an owner has got the owner of the
\* first train standing on it, else the owner of the first connected rail
\* neighbour with a valid owner, else has become a normal road (a crossing)
\* or clear land (a plain rail tile).
C20_RailOwnersValid ==
    (87 > stv[1] /\ pc > StepAt(1122)) =>
        /\ TrainOwnersValid =>
               \A t \in DOMAIN _m :
                   IsTrackTile(_m, t) => IsValidCompanyID(companies, GetTileOwner(_m, t))
        /\ \A t \in DecodedWithInvalidOwner :
               IF TrainsOn(t) # {}
               THEN _m[t] = [entry.m[t] EXCEPT !.owner = vehicles[MinOf(TrainsOn(t))].owner]
               ELSE IF ConnectedSides(t) # {}
               THEN LET tt == TileAddByDiagDir(t, MinOf(ConnectedSides(t)))
                    IN  _m[t] = [entry.m[t] EXCEPT
                                    !.owner = GetTileOwner(IF tt < t THEN _m ELSE entry.m, tt)]
               ELSE IF IsLevelCrossingTile(entry.m, t)
               THEN IsTileType(_m, t, "MP_ROAD") /\ _m[t].sub = "ROAD_TILE_NORMAL"
               ELSE IsTileType(_m, t, "MP_CLEAR")
        /\ \A t \in DOMAIN _m :
               (IsTrackTile(entry.m, t) /\ t \notin DecodedWithInvalidOwner) =>
                   _m[t] = entry.m[t]

\* The version<87 step has run on a map with two connected rail tiles of
\* invalid owner: the first got the owner of the train on it, the second took
\* the owner from the first.
C20_Witness ==
    /\ 87 > stv[1]
    /\ pc > StepAt(1122)
    /\ TrainOwnersValid
    /\ \E t \in DecodedWithInvalidOwner :
           /\ TrainsOn(t) # {}
           /\ (t + 1) \in DecodedWithInvalidOwner
           /\ TrainsOn(t + 1) = {}
           /\ IsPlainRailTile(_m, t + 1)
           /\ GetTileOwner(_m, t + 1) = GetTileOwner(_m, t)
           /\ IsValidCompanyID(companies, GetTileOwner(_m, t))

---------------------------------------------------------------------------
(* AfterLoadGame on stores whose pools hold the items the steps of lines   *)
(* 573-629, 1199-1209, 1389-1399 and 1461-1519 delete.                     *)

Subsidy(remaining, town_effect, src, dst) ==
    [valid |-> TRUE, remaining |-> remaining, awarded |-> 0,
     town_effect |-> town_effect, src_type |-> "ST_INDUSTRY",
     dst_type |-> "ST_INDUSTRY", src |-> src, dst |-> dst]

\* A road vehicle or train in the wormhole of the bridge head at (0,2).
PoolGroundVehicles ==
    { [Vehicle(f[1], At(WalkMapSide, 0, 2), DiagDirToDir(DIAGDIR_SW), TILE_SIZE - 1,
               FALSE, TRUE) EXCEPT !.front = f[2], !.tram = f[3]] :
        f \in { <<"VEH_ROAD", TRUE, TRUE>>, <<"VEH_ROAD", TRUE, FALSE>>,
                <<"VEH_ROAD", FALSE, FALSE>>, <<"VEH_TRAIN", TRUE, FALSE>> } }

\* A disaster vehicle; a small UFO heads for the vehicle of index dest_tile.
PoolDisasterVehicles ==
    { [Vehicle("VEH_DISASTER", At(WalkMapSide, 1, 0), DiagDirToDir(DIAGDIR_SW), 8,
               FALSE, FALSE) EXCEPT !.subtype = f[1], !.order_dest = f[2],
                                    !.dest_tile = f[3]] :
        f \in { <<2, 1, 1>>, <<2, 1, 3>>, <<2, 0, 1>>, <<0, 1, 3>> } }

PoolSubsidies ==
    { Subsidy(remaining, town_effect, e[1], e[2]) :
        remaining \in {3, 15}, town_effect \in {"TE_PASSENGERS", "TE_GOODS", "TE_NONE"},
        e \in { <<0, 0>>, <<1, 2>> } }

\* The oil rig station 1 at (1,1), with or without its industry at (1,2),
\* and the station 2; one town, and the industry 0 when the oil rig is there.
PoolScenarios ==
    { [BaseScenario EXCEPT
          !.m = MapWith(WalkMapSide,
                    (At(WalkMapSide, 1, 1) :>
                         [StationTile("oilrig", 1) EXCEPT !.wc = "WATER_CLASS_SEA"])
                    @@ (At(WalkMapSide, 1, 2) :> below)
                    @@ (At(WalkMapSide, 0, 2) :> BridgeHead(DIAGDIR_SW))
                    @@ (At(WalkMapSide, 2, 2) :> BridgeHead(DIAGDIR_NE))),
          !.stations = <<Station(TRUE, AT_OILRIG, 0), Station(FALSE, 0, 0)>>,
          !.vehicles = <<g, d>>,
          !.subsidies = <<s>>] :
        below \in {ClearTile, IndustryTile("GFX_OILRIG_1")},
        g \in PoolGroundVehicles, d \in PoolDisasterVehicles, s \in PoolSubsidies }

PoolVersions == { <<major, 0>> : major \in {0, 61, 62, 121, 125} }

InitPools ==
    /\ \E v \in PoolVersions, s \in PoolScenarios : EnterAfterLoadGame(v, s, WalkMapSide)
    /\ pc = 1
    /\ status = "running"
    /\ gwc = [called |-> FALSE]
    /\ query = [asked |-> FALSE]

SpecPools == InitPools /\ [][Next]_vars

---------------------------------------------------------------------------
(* The items deleted by the steps.                                         *)

\* The item of a pool was deleted by a step of this run.
Deleted(now, before, i) == before[i].valid /\ ~now[i].valid

\* The vehicle is a valid front road vehicle.
IsValidFrontRoadVehicle(i) ==
    /\ i \in DOMAIN vehicles
    /\ vehicles[i].valid /\ vehicles[i].type = "VEH_ROAD" /\ vehicles[i].front

\* No step changes an invalid item of the pool.
InvalidItemsUntouched(pool, poolAfter) ==
    \A i \in DOMAIN pool : ~pool[i].valid => poolAfter[i] = pool[i]

\* C15: an item deleted by a step of AfterLoadGame (the front engine of a
\* tram at lines 1199-1209, a small UFO at lines 1389-1399, a subsidy at
\* lines 1461-1519, the station of an oil rig without industry at lines
\* 573-629) is invalid from then on: once the step of line 1199 has run no
\* valid front tram is left, once that of line 1389 has run no valid small
\* UFO heads for anything but a valid front road vehicle, once that of line
\* 1461 has run no subsidy decoded as awarded between stations of which one
\* is deleted is left valid; and no later step visits it: no step changes an
\* invalid vehicle, station or subsidy or makes it valid again.
C15_DeletedItemsStayInvalid ==
    /\ [](/\ 1199 \in ran =>
               \A i \in DOMAIN vehicles :
                   ~(vehicles[i].valid /\ vehicles[i].type = "VEH_ROAD"
                     /\ vehicles[i].front /\ vehicles[i].tram)
          /\ 1389 \in ran =>
               \A i \in DOMAIN vehicles :
                   (vehicles[i].valid /\ vehicles[i].type = "VEH_DISASTER"
                    /\ vehicles[i].subtype = 2 /\ vehicles[i].order_dest # 0)
                   => IsValidFrontRoadVehicle(vehicles[i].dest_tile)
          /\ 1461 \in ran =>
               \A i \in DOMAIN subsidies :
                   (entry.subsidies[i].remaining >= 12
                    /\ \E j \in {entry.subsidies[i].src, entry.subsidies[i].dst} :
                          j \in DOMAIN stations /\ ~stations[j].valid)
                   => ~subsidies[i].valid)
    /\ [][/\ InvalidItemsUntouched(vehicles, vehicles')
          /\ InvalidItemsUntouched(stations, stations')
          /\ InvalidItemsUntouched(subsidies, subsidies')]_vars

\* A save of version 0 was loaded to the end: the tram in the wormhole of the
\* bridge head, the small UFO heading for it, the station of the oil rig
\* without industry and the subsidy awarded from that station were deleted;
\* the loop of line 805 visited the other station and not the deleted one,
\* and the loop of line 1798 left the deleted tram on its bridge head.
C15_Witness ==
    /\ status = "done"
    /\ {803, 1199, 1389, 1461} \subseteq ran
    /\ Deleted(vehicles, entry.vehicles, 1)
    /\ entry.vehicles[1].tram
    /\ vehicles[1].wormhole
    /\ vehicles[1].direction = DiagDirToDir(GetTunnelBridgeDirection(_m, vehicles[1].tile))
    /\ vehicles[1].tile = entry.vehicles[1].tile
    /\ Deleted(vehicles, entry.vehicles, 2)
    /\ entry.vehicles[2].dest_tile = 1
    /\ Deleted(stations, entry.stations, 1)
    /\ stations[1].last_vehicle_type = "VEH_TRAIN"
    /\ stations[2].valid /\ stations[2].last_vehicle_type = "VEH_INVALID"
    /\ Deleted(subsidies, entry.subsidies, 1)
    /\ entry.subsidies[1].town_effect = "TE_PASSENGERS"
    /\ entry.subsidies[1].remaining >= 12

---------------------------------------------------------------------------
(* The pause mode check of lines 301-316.                                  *)

\* The decoded pause mode has the paused-due-to-error bit.
PausedByError(pm) == (pm \div PM_PAUSED_ERROR) % 2 = 1

\* C21: at the check of lines 301-316 a snapshot of version 119 or later
\* loaded on a dedicated server with the paused-due-to-error bit set in the
\* pause mode aborts with SlCorrupt, and then no step with a version
\* predicate has run and the store is as decoded; a snapshot older than 119
\* never aborts there, and its pause mode becomes paused-normal if it was 2
\* and unpaused otherwise.
C21_PausedByErrorAbortsOnDedicatedServer ==
    /\ []((status = "SlCorrupt" /\ pc = StepAt(301)) =>
            /\ stv[1] >= 119 /\ _network_dedicated /\ PausedByError(_pause_mode)
            /\ ran = {}
            /\ executed = <<294, 299, 301>>
            /\ Store = entry)
    /\ [][(status = "running" /\ pc = StepAt(301)) =>
            IF stv[1] < 119 THEN
                /\ status' = "running"
                /\ _pause_mode' = IF _pause_mode = 2 THEN PM_PAUSED_NORMAL
                                  ELSE PM_UNPAUSED
            ELSE (status' = "SlCorrupt")
                     <=> (_network_dedicated /\ PausedByError(_pause_mode))]_vars

\* A dedicated server loaded a snapshot of version 119 or later that was
\* paused by an error and by waiting for clients: the load stopped at line 305.
C21_Witness ==
    /\ status = "SlCorrupt"
    /\ pc = StepAt(301)
    /\ stv[1] >= 119
    /\ _network_dedicated
    /\ _pause_mode = PM_PAUSED_ERROR + PM_PAUSED_ACTIVE_CLIENTS

---------------------------------------------------------------------------
(* The town check of lines 551-554.                                        *)

\* The steps that look up the closest town of a tile (lines 642, 694, 705,
\* 961 and 1320).
ClosestTownLines == {638, 691, 700, 958, 1292}

\* The step of the line has executed before the k-th executed step.
ExecutedBefore(line, k) == \E j \in 1..(k - 1) : executed[j] = line

\* C22: in normal game mode a load that reaches the check of line 552 with an
\* empty town pool aborts there with SlException (the no-town failure), so
\* that no later step runs; in another game mode, or with a town, the check
\* does not abort; the check executes after the call of AfterLoadVehicles
\* (line 541) and before every step that looks up the closest town of a tile.
C22_NoTownAbortsNormalGame ==
    /\ []((_game_mode = "GM_NORMAL" /\ num_towns = 0) =>
            /\ pc <= StepAt(552)
            /\ status # "done"
            /\ \A k \in DOMAIN executed : executed[k] \notin ClosestTownLines)
    /\ [](\A k \in DOMAIN executed :
            /\ executed[k] = 552 =>
                  ExecutedBefore(541, k) /\ CountOf("AfterLoadVehicles", calls) = 1
            /\ executed[k] \in ClosestTownLines => ExecutedBefore(552, k))
    /\ [][(status = "running" /\ pc = StepAt(552)) =>
            /\ (status' = "SlException") <=> (_game_mode = "GM_NORMAL" /\ num_towns = 0)
            /\ status' \in {"running", "SlException"}]_vars

\* A normal game without towns was loaded: the vehicles had been updated and
\* the load stopped at line 553.
C22_Witness ==
    /\ status = "SlException"
    /\ pc = StepAt(552)
    /\ _game_mode = "GM_NORMAL"
    /\ num_towns = 0
    /\ CountOf("AfterLoadVehicles", calls) = 1

---------------------------------------------------------------------------
(* The subsidy conversion of lines 1461-1519 on pools of one subsidy of    *)
(* every age and cargo, between towns, industries and stations that exist  *)
(* or not.                                                                 *)

\* The greatest town, industry or station index a subsidy of the inputs names.
MaxSubsidyEnd == 2

\* Two towns (0 and 1), the industry 0, and the stations 1 (in town 0) and 2
\* (in town 1); company 0 is valid, company 1 is not.  The age of a subsidy
\* is in months: below 12 it is not awarded, and an awarded one ends at 24.
SubsidyScenarios ==
    { [BaseScenario EXCEPT
          !.m = MapWith(WalkMapSide, (At(WalkMapSide, 1, 1) :> IndustryTile("GFX_COAL_MINE"))),
          !.num_towns = 2,
          !.stations = <<[Station(FALSE, 0, o[1]) EXCEPT !.town = 0],
                         [Station(FALSE, 0, o[2]) EXCEPT !.town = 1, !.valid = o[3]]>>,
          !.subsidies = <<Subsidy(age, town_effect, src, dst)>>] :
        o \in { <<0, 0, TRUE>>, <<0, 1, TRUE>>, <<1, 1, TRUE>>, <<0, 0, FALSE>> },
        age \in {0, 3, 11, 12, 15, 23, 24},
        town_effect \in {"TE_PASSENGERS", "TE_MAIL", "TE_GOODS", "TE_FOOD", "TE_NONE"},
        src \in 0..MaxSubsidyEnd, dst \in 0..MaxSubsidyEnd }

SubsidyVersions == { <<major, 0>> : major \in {1, 124, 125} }

InitSubsidies ==
    /\ \E v \in SubsidyVersions, s \in SubsidyScenarios :
         EnterAfterLoadGame(v, s, WalkMapSide)
    /\ pc = StepAt(1445)
    /\ status = "running"
    /\ gwc = [called |-> FALSE]
    /\ query = [asked |-> FALSE]

NextSubsidies ==
    \/ GatedStep
    \/ Step125

SpecSubsidies == InitSubsidies /\ [][NextSubsidies]_vars

\* The pools the town effect of the cargo selects for the two ends of a
\* subsidy that is not awarded.
EndTypes(town_effect) ==
    CASE town_effect \in {"TE_PASSENGERS", "TE_MAIL"} -> <<"ST_TOWN", "ST_TOWN">>
      [] town_effect \in {"TE_GOODS", "TE_FOOD"} -> <<"ST_INDUSTRY", "ST_TOWN">>
      [] OTHER -> <<"ST_INDUSTRY", "ST_INDUSTRY">>

IsValidEnd(type, i) ==
    IF type = "ST_TOWN" THEN IsValidTownID(num_towns, i) ELSE IsValidIndustryID(_m, i)

\* (a) the subsidy was decoded as not awarded, between two valid ends
ConvertibleOffer(o) ==
    /\ o.remaining < 12
    /\ IsValidEnd(EndTypes(o.town_effect)[1], o.src)
    /\ IsValidEnd(EndTypes(o.town_effect)[2], o.dst)

\* (b) the subsidy was decoded as awarded for passengers or mail between two
\* valid stations of one valid company
ConvertibleAward(o) ==
    /\ o.remaining >= 12
    /\ o.town_effect \in {"TE_PASSENGERS", "TE_MAIL"}
    /\ GetIfValid(stations, o.src) /\ GetIfValid(stations, o.dst)
    /\ stations[o.src].owner = stations[o.dst].owner
    /\ IsValidCompanyID(companies, stations[o.src].owner)

\* C23: after the version<125 conversion a subsidy is valid exactly when it
\* was decoded (a) as not awarded with both ends valid in the pools its
\* cargo's town effect selects, and then it is awarded to nobody, has those
\* end types, its decoded ends and remaining = 12 - age, or (b) as awarded
\* for passengers or mail between two valid stations of one valid company,
\* and then it is awarded to that company, runs between the towns of the two
\* stations and has remaining = 24 - age; every other subsidy is deleted.
C23_SubsidiesConverted ==
    1461 \in ran =>
        \A i \in DOMAIN subsidies :
            LET o == entry.subsidies[i]
                n == subsidies[i]
            IN  o.valid =>
                  /\ n.valid <=> (ConvertibleOffer(o) \/ ConvertibleAward(o))
                  /\ (n.valid /\ o.remaining < 12) =>
                        /\ n.awarded = INVALID_COMPANY
                        /\ n.remaining = 12 - o.remaining
                        /\ <<n.src_type, n.dst_type>> = EndTypes(o.town_effect)
                        /\ n.src = o.src /\ n.dst = o.dst
                  /\ (n.valid /\ o.remaining >= 12) =>
                        /\ n.awarded = stations[o.src].owner
                        /\ IsValidCompanyID(companies, n.awarded)
                        /\ n.remaining = 24 - o.remaining
                        /\ n.src_type = "ST_TOWN" /\ n.dst_type = "ST_TOWN"
                        /\ n.src = stations[o.src].town
                        /\ n.dst = stations[o.dst].town

\* A subsidy awarded for mail between the stations 1 and 2 of company 0, aged
\* 15 months, was converted: it runs between the towns 0 and 1 for 9 months.
C23_Witness ==
    /\ 1461 \in ran
    /\ entry.subsidies[1].remaining = 15
    /\ entry.subsidies[1].town_effect = "TE_MAIL"
    /\ entry.subsidies[1].src = 1 /\ entry.subsidies[1].dst = 2
    /\ subsidies[1].valid
    /\ subsidies[1].remaining = 9
    /\ subsidies[1].awarded = 0
    /\ subsidies[1].src = 0 /\ subsidies[1].dst = 1

---------------------------------------------------------------------------
(* The clean-up of the animated tile list (lines 1421-1443), one pass      *)
(* through the body of the loop at a time.                                 *)

MaxAnimated == 4

\* A map with tiles of two animated types and of two types that are not.
AnimatedMap ==
    MapWith(WalkMapSide, (0 :> ClearTile) @@ (1 :> IndustryTile("GFX_COAL_MINE"))
                         @@ (2 :> StationTile("rail", 0)) @@ (3 :> WaterTile("WATER_CLASS_SEA")))

AnimatedLists == UNION { [1..n -> 0..3] : n \in 0..MaxAnimated }

AnimatedVersions == { <<121, 0>>, <<122, 0>> }

InitAnimated ==
    /\ \E v \in AnimatedVersions, l \in AnimatedLists :
         EnterAfterLoadGame(v, [BaseScenario EXCEPT !.m = AnimatedMap, !.animated = l],
                            WalkMapSide)
    /\ pc = StepAt(1421)
    /\ status = "running"
    /\ gwc = [called |-> FALSE]
    /\ query = [asked |-> FALSE]

\* line 1421, the version is older than 122: the loop is entered with i = 0
AnimatedLoopEnter ==
    /\ Reached("step122")
    /\ anit.at = "idle"
    /\ StepApplies(pc)
    /\ anit' = [at |-> "loop", i |-> 0, before |-> _animated_tile_list]
    /\ UNCHANGED <<pc, status, ran, executed, calls, hostvars, animvars>>
    /\ UNCHANGED <<_animated_tile_allocated, reader, handlers, crash>>
    /\ UNCHANGED storevars

\* line 1421, the version is 122 or newer: the step is passed over
AnimatedLoopSkip ==
    /\ Reached("step122")
    /\ anit.at = "idle"
    /\ ~StepApplies(pc)
    /\ Advance(FALSE)
    /\ UNCHANGED <<calls, hostvars, animvars, sidevars>>
    /\ UNCHANGED storevars

\* lines 1426-1440: one pass through the body, the entry at i is removed
AnimatedTileRemove ==
    /\ Reached("step122")
    /\ anit.at = "loop"
    /\ anit.i < _animated_tile_count
    /\ RemoveAnimatedTile(_m, _animated_tile_list, anit.i)
    /\ LET r == CleanAnimatedTile(_m, _animated_tile_list, _animated_tile_count, anit.i)
       IN  /\ _animated_tile_list' = r.list
           /\ _animated_tile_count' = r.count
           /\ anit' = [anit EXCEPT !.i = r.i]
    /\ UNCHANGED <<pc, status, ran, executed, calls, hostvars>>
    /\ UNCHANGED <<_animated_tile_allocated, reader, handlers, crash>>
    /\ UNCHANGED storevars

\* lines 1426-1440: one pass through the body, the entry at i is kept
AnimatedTileKeep ==
    /\ Reached("step122")
    /\ anit.at = "loop"
    /\ anit.i < _animated_tile_count
    /\ ~RemoveAnimatedTile(_m, _animated_tile_list, anit.i)
    /\ LET r == CleanAnimatedTile(_m, _animated_tile_list, _animated_tile_count, anit.i)
       IN  /\ _animated_tile_list' = r.list
           /\ _animated_tile_count' = r.count
           /\ anit' = [anit EXCEPT !.i = r.i]
    /\ UNCHANGED <<pc, status, ran, executed, calls, hostvars>>
    /\ UNCHANGED <<_animated_tile_allocated, reader, handlers, crash>>
    /\ UNCHANGED storevars

\* line 1426: the condition of the loop fails and the step is over
AnimatedLoopExit ==
    /\ Reached("step122")
    /\ anit.at = "loop"
    /\ ~(anit.i < _animated_tile_count)
    /\ anit' = [anit EXCEPT !.at = "done"]
    /\ Advance(TRUE)
    /\ UNCHANGED <<calls, hostvars, animvars>>
    /\ UNCHANGED <<_animated_tile_allocated, reader, handlers, crash>>
    /\ UNCHANGED storevars

NextAnimated ==
    \/ AnimatedLoopEnter
    \/ AnimatedLoopSkip
    \/ AnimatedTileRemove
    \/ AnimatedTileKeep
    \/ AnimatedLoopExit

\* The loop runs on as long as it can: nothing else holds the load up.
SpecAnimated == InitAnimated /\ [][NextAnimated]_vars /\ WF_vars(NextAnimated)

\* The tile is held by exactly one of the first count entries of the list.
HeldOnce(list, count, tile) ==
    Cardinality({ k \in 1..count : list[k] = tile }) = 1

\* The list as the clean-up is to leave it, given the list it started from.
AnimatedListClean(m, before, list, count) ==
    /\ count = Len(list)
    /\ \A j \in 1..count, k \in 1..count : j # k => list[j] # list[k]
    /\ \A k \in 1..count : HasAnimationProc(GetTileType(m, list[k]))
    /\ \A k \in 1..Len(before) :
         HasAnimationProc(GetTileType(m, before[k])) => HeldOnce(list, count, before[k])

\* C24: the clean-up loop of the version<122 step comes to its end for every
\* list; when it has, no tile is in the list twice, no tile of the list is of
\* a type without animation procedure, every tile of an animated type that
\* was in the list before is in it exactly once, and the list is the one the
\* step as a whole leaves.
C24_AnimatedTilesCleanedUp ==
    /\ <>(pc # StepAt(1421))
    /\ [](anit.at = "done" =>
            /\ AnimatedListClean(_m, anit.before, _animated_tile_list, _animated_tile_count)
            /\ LET r == CleanAnimatedTiles(_m, anit.before, Len(anit.before), 0)
               IN  _animated_tile_list = r.list /\ _animated_tile_count = r.count)
    /\ [][anit.at = "loop" /\ anit'.at = "loop" =>
            _animated_tile_count' - anit'.i < _animated_tile_count - anit.i]_vars

\* A list with a tile of an animated type twice and a tile of a type
\* without animation procedure has been cleaned up.
C24_Witness ==
    /\ anit.at = "done"
    /\ Len(anit.before) = MaxAnimated
    /\ \E j \in 1..MaxAnimated, k \in 1..MaxAnimated :
         /\ j < k
         /\ anit.before[j] = anit.before[k]
         /\ HasAnimationProc(GetTileType(_m, anit.before[j]))
    /\ \E k \in 1..MaxAnimated : ~HasAnimationProc(GetTileType(_m, anit.before[k]))
    /\ _animated_tile_count = 2

---------------------------------------------------------------------------
(* The ANIT chunk (animated_tile_sl.cpp): Save_ANIT and Load_ANIT.  The    *)
(* chunk is a sequence of bytes; the reader and the writer put the most    *)
(* significant byte of an integer first.                                   *)

\* The number of entries of an ANIT chunk older than version 80.
LegacyAnimatedTiles == 256

\* sizeof(*_animated_tile_list)
TileIndexSize == 4

\* reader->IsOTTDVersionBefore(major)
IsOTTDVersionBefore(v, major) == v[1] < major

\* dumper->WriteUint32(x): the four bytes of x
WriteUint32(x) ==
    <<(x \div 16777216) % 256, (x \div 65536) % 256, (x \div 256) % 256, x % 256>>

\* the two bytes of a 16 bit integer, as the old game wrote them
WriteUint16(x) == <<(x \div 256) % 256, x % 256>>

\* reader->ReadUint16() and reader->ReadUint32() with pos bytes consumed
ReadUint16(bytes, pos) == bytes[pos + 1] * 256 + bytes[pos + 2]
ReadUint32(bytes, pos) ==
    bytes[pos + 1] * 16777216 + bytes[pos + 2] * 65536
      + bytes[pos + 3] * 256 + bytes[pos + 4]

\* dumper->WriteRIFFSize(size): the chunk header, bits 24..27 of the size in
\* the upper half of the first byte
WriteRIFFSize(size) ==
    <<((size \div 16777216) % 16) * 16, (size \div 65536) % 256,
      (size \div 256) % 256, size % 256>>

\* reader->GetChunkSize()
GetChunkSize(header) ==
    (header[1] \div 16) * 16777216 + header[2] * 65536 + header[3] * 256 + header[4]

\* Variant, for comparison: the size of the chunk is the number of entries.
SizeOfEntries_Count(count) == count

\* line 27: _animated_tile_count * sizeof(*_animated_tile_list)
SizeOfEntries(count) == count * TileIndexSize

\* lines 27-30: the header and the bytes Save_ANIT writes
SavedANIT(list, count) ==
    [header |-> WriteRIFFSize(SizeOfEntries(count)),
     bytes |-> [b \in 1..(count * TileIndexSize) |->
                  WriteUint32(list[((b - 1) \div TileIndexSize) + 1])
                      [((b - 1) % TileIndexSize) + 1]],
     pos |-> 0]

\* line 43: the size of an entry and the entry read with pos bytes consumed
EntrySize(pre6) == IF pre6 THEN 2 ELSE 4
ReadEntry(bytes, pos, pre6) ==
    IF pre6 THEN ReadUint16(bytes, pos) ELSE ReadUint32(bytes, pos)

\* Variant, for comparison: the entries behind the zero entry stay unread.
SkippedBehindZero_None(count, pre6) == 0

\* line 45: the bytes skipped behind a zero entry
SkippedBehindZero(count, pre6) == (255 - count) * EntrySize(pre6)

\* lines 56-57
RECURSIVE Allocated(_, _)
Allocated(allocated, count) ==
    IF allocated < count THEN Allocated(allocated * 2, count) ELSE allocated

\* InitializeAnimatedTiles(): the list is emptied before a load
InitializeAnimatedTiles ==
    /\ anit.at = "saved"
    /\ _animated_tile_list' = <<>>
    /\ _animated_tile_count' = 0
    /\ _animated_tile_allocated' = InitialAnimatedTiles
    /\ anit' = [anit EXCEPT !.at = "stored"]
    /\ UNCHANGED <<pc, status, ran, executed, calls, hostvars, reader, handlers, crash>>
    /\ UNCHANGED storevars

\* lines 25-31
Save_ANIT ==
    /\ anit.at = "memory"
    /\ reader' = SavedANIT(_animated_tile_list, _animated_tile_count)
    /\ anit' = [at |-> "saved", list |-> _animated_tile_list,
                count |-> _animated_tile_count]
    /\ UNCHANGED <<pc, status, ran, executed, calls, hostvars, animvars,
                   _animated_tile_allocated, handlers, crash>>
    /\ UNCHANGED storevars

\* lines 36-42 and 53-63: Load_ANIT is entered; for a version of 80 or later
\* it reads the whole chunk, for an older one it sets out on the loop
Load_ANIT ==
    /\ anit.at = "stored"
    /\ IF IsOTTDVersionBefore(stv, 80)
       THEN /\ _animated_tile_count' = 0
            /\ anit' = [anit EXCEPT !.at = "legacy"]
            /\ UNCHANGED <<_animated_tile_list, _animated_tile_allocated, reader>>
       ELSE LET count == GetChunkSize(reader.header) \div TileIndexSize
            IN  /\ _animated_tile_count' = count
                /\ _animated_tile_allocated' = Allocated(InitialAnimatedTiles, count)
                /\ _animated_tile_list' =
                       [k \in 1..count |->
                           ReadUint32(reader.bytes, reader.pos + (k - 1) * TileIndexSize)]
                /\ reader' = [reader EXCEPT !.pos = reader.pos + count * TileIndexSize]
                /\ anit' = [anit EXCEPT !.at = "loaded"]
    /\ UNCHANGED <<pc, status, ran, executed, calls, hostvars, handlers, crash>>
    /\ UNCHANGED storevars

\* lines 42-48: an entry that is not zero is read and stored
LoadLegacyEntry ==
    /\ anit.at = "legacy"
    /\ _animated_tile_count < LegacyAnimatedTiles
    /\ LET pre6 == IsOTTDVersionBefore(stv, 6)
           tile == ReadEntry(reader.bytes, reader.pos, pre6)
       IN  /\ tile # 0
           /\ reader' = [reader EXCEPT !.pos = reader.pos + EntrySize(pre6)]
           /\ _animated_tile_list' =
                  [k \in 1..(_animated_tile_count + 1) |->
                      IF k = _animated_tile_count + 1 THEN tile
                      ELSE _animated_tile_list[k]]
           /\ _animated_tile_count' = _animated_tile_count + 1
    /\ UNCHANGED <<pc, status, ran, executed, calls, hostvars, handlers, crash>>
    /\ UNCHANGED <<_animated_tile_allocated, anit>>
    /\ UNCHANGED storevars

\* lines 42-47 and 50: a zero entry is read, the rest of the chunk is skipped
\* and Load_ANIT returns
LoadLegacyZero ==
    /\ anit.at = "legacy"
    /\ _animated_tile_count < LegacyAnimatedTiles
    /\ LET pre6 == IsOTTDVersionBefore(stv, 6)
           tile == ReadEntry(reader.bytes, reader.pos, pre6)
       IN  /\ tile = 0
           /\ reader' = [reader EXCEPT !.pos = reader.pos + EntrySize(pre6)
                                               + SkippedBehindZero(_animated_tile_count, pre6)]
    /\ anit' = [anit EXCEPT !.at = "loaded"]
    /\ UNCHANGED <<pc, status, ran, executed, calls, hostvars, handlers, crash>>
    /\ UNCHANGED <<animvars, _animated_tile_allocated>>
    /\ UNCHANGED storevars

\* lines 42 and 50: the count has reached 256 and Load_ANIT returns
LoadLegacyEnd ==
    /\ anit.at = "legacy"
    /\ ~(_animated_tile_count < LegacyAnimatedTiles)
    /\ anit' = [anit EXCEPT !.at = "loaded"]
    /\ UNCHANGED <<pc, status, ran, executed, calls, hostvars, handlers, crash>>
    /\ UNCHANGED <<animvars, _animated_tile_allocated, reader>>
    /\ UNCHANGED storevars

\* How often the allocation of the largest list is doubled.
MaxDoublings == 2

\* The entries of the chunks and lists: small tile indices and large ones,
\* in which every byte counts.
EntryValue(k, large, size) ==
    IF ~large THEN k
    ELSE IF size = 2 THEN 65535 - k ELSE 2130771968 + k

\* The old chunks: 256 entries with the first zero at z (none for z = 257)
\* and, behind it, zeros or further entries.
LegacyChunks(pre6) ==
    { [k \in 1..LegacyAnimatedTiles |->
          IF k = z \/ (k > z /\ ~more) THEN 0 ELSE EntryValue(k, large, EntrySize(pre6))] :
        z \in {1, 2, 3, 100, 255, 256, 257}, large \in BOOLEAN, more \in BOOLEAN }

\* The bytes of the entries of an old chunk, and the bytes that follow it.
LegacyBytes(entries, pre6) ==
    [b \in 1..(LegacyAnimatedTiles * EntrySize(pre6)) |->
        LET x == entries[((b - 1) \div EntrySize(pre6)) + 1]
        IN  (IF pre6 THEN WriteUint16(x) ELSE WriteUint32(x))[((b - 1) % EntrySize(pre6)) + 1]]
      \o <<1, 2, 3, 4>>

LegacyChunkVersions == { <<0, 0>>, <<5, 0>>, <<6, 0>>, <<79, 0>> }

ChunkVersions == { <<80, 0>>, <<185, 0>> }

\* The lists in memory: their lengths lie around the sizes of the allocation.
SavedLengths ==
    {0, 1, 2} \cup { InitialAnimatedTiles * Pow2(k) + d : k \in 0..MaxDoublings, d \in {-1, 0, 1} }

InitChunk ==
    /\ pc = 0
    /\ status = "chunk"
    /\ gwc = [called |-> FALSE]
    /\ query = [asked |-> FALSE]
    /\ handlers = [sig \in Signals |-> "SIG_DFL"]
    /\ crash = [at |-> "running"]
    /\ \/ \E v \in LegacyChunkVersions :
            \E entries \in LegacyChunks(IsOTTDVersionBefore(v, 6)) :
              /\ Decoded(v, BaseScenario, WalkMapSide)
              /\ _animated_tile_list = <<>>
              /\ _animated_tile_count = 0
              /\ _animated_tile_allocated = InitialAnimatedTiles
              /\ reader = [header |-> WriteRIFFSize(LegacyAnimatedTiles
                                                     * EntrySize(IsOTTDVersionBefore(v, 6))),
                           bytes |-> LegacyBytes(entries, IsOTTDVersionBefore(v, 6)),
                           pos |-> 0]
              /\ anit = [at |-> "stored", entries |-> entries]
       \/ \E v \in ChunkVersions, n \in SavedLengths, large \in BOOLEAN :
              /\ Decoded(v, BaseScenario, WalkMapSide)
              /\ _animated_tile_list = [k \in 1..n |-> EntryValue(k, large, TileIndexSize)]
              /\ _animated_tile_count = n
              /\ _animated_tile_allocated = Allocated(InitialAnimatedTiles, n)
              /\ reader = [header |-> <<0, 0, 0, 0>>, bytes |-> <<>>, pos |-> 0]
              /\ anit = [at |-> "memory"]

NextChunk ==
    \/ Save_ANIT
    \/ InitializeAnimatedTiles
    \/ Load_ANIT
    \/ LoadLegacyEntry
    \/ LoadLegacyZero
    \/ LoadLegacyEnd

SpecChunk == InitChunk /\ [][NextChunk]_vars

\* The number of entries of the chunk before its first zero entry.
BeforeFirstZero(entries) ==
    IF \A k \in 1..Len(entries) : entries[k] # 0 THEN Len(entries)
    ELSE (CHOOSE k \in 1..Len(entries) :
              entries[k] = 0 /\ \A j \in 1..(k - 1) : entries[j] # 0) - 1

\* C25: Load_ANIT on a snapshot older than version 80 consumes exactly 256
\* entries of the chunk (of 2 bytes each before version 6, of 4 bytes each
\* otherwise), whatever they hold, sets the count to the number of entries
\* before the first zero entry (256 if there is none) and stores exactly
\* those entries, in their order.
C25_LegacyChunkLoaded ==
    (anit.at = "loaded" /\ IsOTTDVersionBefore(stv, 80)) =>
        /\ reader.pos = 256 * (IF stv[1] < 6 THEN 2 ELSE 4)
        /\ _animated_tile_count = BeforeFirstZero(anit.entries)
        /\ _animated_tile_list = SubSeq(anit.entries, 1, BeforeFirstZero(anit.entries))

\* An old chunk with entries before and behind its first zero entry has been
\* loaded, and one without zero entry.
C25_Witness ==
    /\ anit.at = "loaded"
    /\ IsOTTDVersionBefore(stv, 80)
    /\ \/ /\ _animated_tile_count = 99
          /\ anit.entries[200] > 65535
          /\ _animated_tile_list[99] = anit.entries[99]
       \/ /\ _animated_tile_count = 256
          /\ IsOTTDVersionBefore(stv, 6)

\* C26: Save_ANIT followed by Load_ANIT at a version of 80 or later gives
\* back the count and the entries that were saved, in their order, and the
\* list is allocated with the least size of the form 256 * 2^k that is not
\* below the count.
C26_SaveLoadRoundTrip ==
    (anit.at = "loaded" /\ ~IsOTTDVersionBefore(stv, 80)) =>
        /\ _animated_tile_count = anit.count
        /\ _animated_tile_list = anit.list
        /\ _animated_tile_allocated >= _animated_tile_count
        /\ \E k \in 0..(MaxDoublings + 1) :
             /\ _animated_tile_allocated = 256 * Pow2(k)
             /\ k > 0 => 256 * Pow2(k - 1) < _animated_tile_count

\* A list of more entries than the least allocation, with large tile
\* indices, has been saved and loaded.
C26_Witness ==
    /\ anit.at = "loaded"
    /\ ~IsOTTDVersionBefore(stv, 80)
    /\ anit.count = 257
    /\ anit.list[257] > 16777215
    /\ _animated_tile_allocated = 512
    /\ Len(reader.bytes) = 1028

---------------------------------------------------------------------------
(* The crash handler (os/unix/crashlog_unix.cpp).  A signal whose          *)
(* disposition is HandleCrash enters the handler; a signal of default      *)
(* disposition ends the process.  abort() raises SIGABRT.                  *)

\* The number of signals raised in one life of the process.
MaxFaults == 3

\* Variant, for comparison: only the signal that was raised is reset.
SignalsReset_OnlyRaised(signum) == {signum}

\* lines 268-270: the signals whose disposition HandleCrash resets
SignalsReset(signum) == _signals_to_handle

\* The positions inside HandleCrash.
InHandleCrash == {"reset", "emergency", "newgrfs", "log", "cleanup", "abort"}

\* The positions behind the loop of lines 268-270.
BehindReset == InHandleCrash \ {"reset"}

\* The process has ended: by abort() or by a signal of default disposition.
Ended == {"aborted", "killed"}

\* The kernel delivers the signal to the process.
Deliver(sig) ==
    IF handlers[sig] = "HandleCrash"
    THEN [crash EXCEPT !.at = "reset", !.signum = sig, !.entered = crash.entered + 1,
                       !.faults = crash.faults + 1]
    ELSE [crash EXCEPT !.at = IF sig = "SIGABRT" /\ crash.at = "abort"
                              THEN "aborted" ELSE "killed",
                       !.faults = crash.faults + 1]

InitCrash ==
    /\ Decoded(<<0, 0>>, BaseScenario, WalkMapSide)
    /\ pc = 0
    /\ status = "process"
    /\ gwc = [called |-> FALSE]
    /\ query = [asked |-> FALSE]
    /\ _animated_tile_list = <<>>
    /\ _animated_tile_count = 0
    /\ _animated_tile_allocated = InitialAnimatedTiles
    /\ reader = [header |-> <<0, 0, 0, 0>>, bytes |-> <<>>, pos |-> 0]
    /\ anit = [at |-> "idle"]
    /\ handlers = [sig \in Signals |-> "SIG_DFL"]
    /\ \E emergency \in BOOLEAN, missing \in BOOLEAN :
         crash = [at |-> "start", signum |-> "none", entered |-> 0, faults |-> 0,
                  log |-> FALSE, emergency |-> emergency, missing_newgrfs |-> missing]

\* lines 300-305: CrashLog::InitialiseCrashLog
InitialiseCrashLog ==
    /\ crash.at = "start"
    /\ handlers' = [sig \in Signals |->
                      IF sig \in _signals_to_handle THEN "HandleCrash" ELSE handlers[sig]]
    /\ crash' = [crash EXCEPT !.at = "running"]
    /\ UNCHANGED <<pc, status, ran, executed, calls, hostvars, animvars,
                   _animated_tile_allocated, reader, anit>>
    /\ UNCHANGED storevars

\* A fault in the game, or while MakeCrashLog is at work.
Fault(sig) ==
    /\ crash.at \in {"start", "running", "log"}
    /\ crash.faults < MaxFaults
    /\ crash' = Deliver(sig)
    /\ UNCHANGED <<pc, status, ran, executed, calls, hostvars, animvars,
                   _animated_tile_allocated, reader, anit, handlers>>
    /\ UNCHANGED storevars

\* lines 268-270
HandleCrashReset ==
    /\ crash.at = "reset"
    /\ handlers' = [sig \in Signals |->
                      IF sig \in SignalsReset(crash.signum) THEN "SIG_DFL" ELSE handlers[sig]]
    /\ crash' = [crash EXCEPT !.at = "emergency"]
    /\ UNCHANGED <<pc, status, ran, executed, calls, hostvars, animvars,
                   _animated_tile_allocated, reader, anit>>
    /\ UNCHANGED storevars

\* lines 272-276: GamelogTestEmergency()
HandleCrashEmergency ==
    /\ crash.at = "emergency"
    /\ crash' = [crash EXCEPT !.at = IF crash.emergency THEN "abort" ELSE "newgrfs"]
    /\ UNCHANGED <<pc, status, ran, executed, calls, hostvars, animvars,
                   _animated_tile_allocated, reader, anit, handlers>>
    /\ UNCHANGED storevars

\* lines 278-283: SaveloadCrashWithMissingNewGRFs()
HandleCrashNewGRFs ==
    /\ crash.at = "newgrfs"
    /\ crash' = IF crash.missing_newgrfs
                THEN [crash EXCEPT !.at = "abort"]
                ELSE [crash EXCEPT !.at = "log", !.log = TRUE]
    /\ UNCHANGED <<pc, status, ran, executed, calls, hostvars, animvars,
                   _animated_tile_allocated, reader, anit, handlers>>
    /\ UNCHANGED storevars

\* lines 285-286: MakeCrashLog returns
HandleCrashLog ==
    /\ crash.at = "log"
    /\ crash' = [crash EXCEPT !.at = "cleanup"]
    /\ UNCHANGED <<pc, status, ran, executed, calls, hostvars, animvars,
                   _animated_tile_allocated, reader, anit, handlers>>
    /\ UNCHANGED storevars

\* line 288: CrashLog::AfterCrashLogCleanup
HandleCrashCleanup ==
    /\ crash.at = "cleanup"
    /\ crash' = [crash EXCEPT !.at = "abort"]
    /\ UNCHANGED <<pc, status, ran, executed, calls, hostvars, animvars,
                   _animated_tile_allocated, reader, anit, handlers>>
    /\ UNCHANGED storevars

\* lines 275, 282, 289: abort()
HandleCrashAbort ==
    /\ crash.at = "abort"
    /\ crash' = Deliver("SIGABRT")
    /\ UNCHANGED <<pc, status, ran, executed, calls, hostvars, animvars,
                   _animated_tile_allocated, reader, anit, handlers>>
    /\ UNCHANGED storevars

\* lines 265-290
HandleCrash ==
    \/ HandleCrashReset
    \/ HandleCrashEmergency
    \/ HandleCrashNewGRFs
    \/ HandleCrashLog
    \/ HandleCrashCleanup
    \/ HandleCrashAbort

NextCrash ==
    \/ InitialiseCrashLog
    \/ \E sig \in Signals : Fault(sig)
    \/ HandleCrash

\* The handler, once entered, runs on.
SpecCrash == InitCrash /\ [][NextCrash]_vars /\ WF_vars(HandleCrash)

\* C27: HandleCrash resets the disposition of the five handled signals
\* before anything else, so a fault raised while the crash log is made ends
\* the process and does not enter HandleCrash again; HandleCrash is left only
\* through abort(), which every path that runs to its end reaches; and the
\* crash log is made only when the game was loaded neither from an emergency
\* savegame nor from a savegame with missing NewGRFs.
C27_CrashHandledOnce ==
    /\ [](crash.at \in BehindReset =>
            \A sig \in _signals_to_handle : handlers[sig] = "SIG_DFL")
    /\ [](crash.entered <= 1)
    /\ [][crash.at = "log" /\ crash'.at # "log" => crash'.at \in {"cleanup", "killed"}]_vars
    /\ [][crash.at \in InHandleCrash /\ crash'.at \notin InHandleCrash =>
            \/ crash.at = "abort" /\ crash'.at = "aborted"
            \/ crash.at = "log" /\ crash'.at = "killed"]_vars
    /\ (crash.at \in InHandleCrash) ~> (crash.at \in Ended)
    /\ [](crash.log => ~crash.emergency /\ ~crash.missing_newgrfs)

\* A fault was raised while the crash log was made for an earlier fault, and
\* it ended the process.
C27_Witness ==
    /\ crash.at = "killed"
    /\ crash.entered = 1
    /\ crash.faults = 2
    /\ crash.log
    /\ crash.signum = "SIGSEGV"

---------------------------------------------------------------------------
(* The animation frame of the houses: the steps of lines 1189 and 1664 on  *)
(* a map with a house of a new type, a house of an old type and an         *)
(* industry tile.                                                          *)

HouseTile(type, m3, m6, m7) ==
    [Tile("MP_HOUSE", type, TRUE, "WATER_CLASS_INVALID", 0, 0)
        EXCEPT !.m3 = m3, !.m6 = m6, !.m7 = m7]

\* The tiles of the two houses.
NewHouseAt == At(WalkMapSide, 1, 0)
OldHouseAt == At(WalkMapSide, 2, 0)

HouseScenarios ==
    { [BaseScenario EXCEPT !.m =
          MapWith(WalkMapSide,
                  (NewHouseAt :> HouseTile(NEW_HOUSE_OFFSET, m3, m6, m7))
                    @@ (OldHouseAt :> HouseTile(NEW_HOUSE_OFFSET - 1, m3, m6, m7))
                    @@ (At(WalkMapSide, 3, 0) :>
                          [IndustryTile("GFX_COAL_MINE") EXCEPT !.m3 = m3, !.m7 = m7]))] :
        m3 \in {0, 32, 255}, m6 \in 0..255, m7 \in {0, 63, 64, 255} }

HouseVersions == { <<90, 0>>, <<91, 0>>, <<146, 0>>, <<147, 0>> }

InitHouses ==
    /\ \E v \in HouseVersions, s \in HouseScenarios : EnterAfterLoadGame(v, s, WalkMapSide)
    /\ pc = StepAt(1189)
    /\ status = "running"
    /\ gwc = [called |-> FALSE]
    /\ query = [asked |-> FALSE]

\* The steps from line 1189 to line 1664, and the gated steps behind them.
NextHouses ==
    \/ Step91
    \/ Step62
    \/ Step99
    \/ ObjectsStep
    \/ Step121
    \/ Step122
    \/ Step125
    \/ Step147
    \/ GatedStep

SpecHouses == InitHouses /\ [][NextHouses]_vars

\* C28: behind the step of line 1664, the new house of a snapshot older
\* than version 91 has in m7 the frame of 5 bits decoded in m6 bits 3..7
\* (m7 bits 5 and 6 are zero), m3 bit 5 cleared, in m6 bits 2..7 the lesser
\* of the decoded m7 and 63, and m6 bits 0..1 as decoded; the new house of a
\* snapshot of version 91..146 has in m7 the value of m6 bits 2..7 plus m3
\* bit 5 as bit 6.
C28_HouseAnimationFrameMoved ==
    pc > StepAt(1664) =>
        LET o == entry.m[NewHouseAt]
            n == _m[NewHouseAt]
        IN  /\ stv[1] < 91 =>
                 /\ n.m7 = GB(o.m6, 3, 5)
                 /\ GB(n.m7, 5, 2) = 0
                 /\ ~HasBit(n.m3, 5)
                 /\ GB(n.m6, 2, 6) = Min(o.m7, 63)
                 /\ GB(n.m6, 0, 2) = GB(o.m6, 0, 2)
            /\ (stv[1] >= 91 /\ stv[1] < 147) =>
                 n.m7 = GB(o.m6, 2, 6) + 64 * GB(o.m3, 5, 1)

\* Both steps have run on a new house whose frame used all five bits, whose
\* m3 bit 5 was set and whose m7 was above 63.
C28_Witness ==
    /\ pc > StepAt(1664)
    /\ stv[1] < 91
    /\ {1189, 1664} \subseteq ran
    /\ GB(entry.m[NewHouseAt].m6, 3, 5) = 31
    /\ HasBit(entry.m[NewHouseAt].m3, 5)
    /\ entry.m[NewHouseAt].m7 = 255
    /\ _m[NewHouseAt].m7 = 31
    /\ _m[OldHouseAt] = entry.m[OldHouseAt]

====
